---- MODULE Spec2Model ----
(***************************************************************************)
(* Seva rotation app (src/app.js): the rotation algorithm and the JSONBin  *)
(* polling synchronisation between browser sessions.                       *)
(*                                                                         *)
(* Time is the wall clock in milliseconds.  A timestamp string is modelled *)
(* by its format and the instant it denotes: toLocaleString() keeps whole  *)
(* seconds only, toISOString() keeps the milliseconds.                     *)
(***************************************************************************)
EXTENDS Integers, Sequences, FiniteSets, TLC

\* ------------------------------------------------------------------------
\* Bounds of the model
\* ------------------------------------------------------------------------
MaxDeviations == 2
MaxOver == 1
MaxSparse == 2
StartTime == 1750
TimeStep == 250
MaxNow == 2000
MaxMutations == 2
MaxFailures == 1
MaxMonitorNow == 45000
MaxRotations == 34

\* ------------------------------------------------------------------------
\* Program constants
\* ------------------------------------------------------------------------
SEVA_TASKS ==
    << "Main Hall, Entrance, Coat Closet", "Kitchen", "Fridges",
       "Upper Rooms and Walkway/Stairs", "Upper Washroom",
       "Dastva Hall and Walkway/Stairs", "Lower Washroom",
       "Private Washroom and Laundry Room",
       "Basement, Luggage Room and Kitchen", "Garbage", "Grocery", "Yard" >>

TASK_CAPACITIES == <<3, 3, 1, 1, 1, 2, 1, 1, 2, 1, 2, 1>>

DEFAULT_ASSIGNMENTS ==
    << <<"Het Bhai", "Harsh Bhai", "Avi Bhai">>,
       <<"Devang Bhai", "Kintul Bhai", "Shreyansh Bhai">>,
       <<"Rohan Bhai">>,
       <<"Malav Bhai & Param Bhai">>,
       <<"Jayraj Bhai">>,
       <<"Vraj Bhai", "Nisarg Bhai">>,
       <<"Sheel Bhai">>,
       <<"Hardik Bhai">>,
       <<"Heet Bhai", "Pratik Bhai">>,
       <<"Bhumin Bhai">>,
       <<"Bhagirath Bhai", "Mann Bhai">>,
       <<"Volunteer">> >>

STORAGE_KEY == "sevaAppData"
LAST_UPDATED_KEY == "sevaAppLastUpdated"
PUSH_DELAY == 100
ECHO_TOLERANCE == 500
CONFLICT_WINDOW == 2000
RETRY_RESET_DELAY == 30000

\* SYNC_CONFIG.syncInterval and SYNC_CONFIG.maxRetries
SYNC_INTERVAL == 3000
MAX_RETRIES == 3

\* The browser sessions; each one's persisted viewerId is its name.
Clients == {"viewer_1", "viewer_2"}

\* The session whose rotations are studied on their own.
RotClient == "viewer_1"

\* The sessions whose sessionStorage holds an admin login.
Admins == {"viewer_1"}

\* localStorage.getItem of a key that was never set.
NoItem == [item |-> "null"]

\* ------------------------------------------------------------------------
\* Timestamps
\* ------------------------------------------------------------------------
\* new Date().toLocaleString(): date and time of day to the second.
getCurrentTimestamp(t) == [format |-> "locale", instant |-> t - (t % 1000)]

\* new Date().toISOString(): millisecond precision.
toISOString(t) == [format |-> "iso", instant |-> t]

\* new Date(x || 0).getTime() of a stored timestamp string.
DateGetTime(s) == IF s = NoItem THEN 0 ELSE s.instant

\* ------------------------------------------------------------------------
\* Rotation (rotatePeople, steps 1 to 3)
\* ------------------------------------------------------------------------
\* SEVA_TASKS[i] and TASK_CAPACITIES[i]; past the end JavaScript reads
\* undefined, which is neither "Grocery" nor "Yard" and bounds no loop.
SevaAt(i) == IF i \in DOMAIN SEVA_TASKS THEN SEVA_TASKS[i] ELSE "undefined"
CapacityAt(i) == IF i \in DOMAIN TASK_CAPACITIES THEN TASK_CAPACITIES[i] ELSE 0

\* The inner loop of step 1 over the Grocery occupants.
GroceryRotatingMutant(bhakto) == bhakto

RECURSIVE GroceryRotating(_)
GroceryRotating(bhakto) ==
    IF bhakto = << >> THEN << >>
    ELSE (IF Head(bhakto) # "Bhagirath Bhai" THEN <<Head(bhakto)>> ELSE << >>)
         \o GroceryRotating(Tail(bhakto))

\* Step 1: the loop that collects peopleToRotate, from task i onwards.
RECURSIVE CollectPeople(_, _, _)
CollectPeople(assignments, i, peopleToRotate) ==
    IF i > Len(assignments) THEN peopleToRotate
    ELSE LET seva == SevaAt(i)
             bhakto == assignments[i]
         IN  CollectPeople(assignments, i + 1,
                 IF seva # "Grocery" /\ seva # "Yard"
                     THEN peopleToRotate \o bhakto
                 ELSE IF seva = "Grocery"
                     THEN peopleToRotate \o GroceryRotating(bhakto)
                 ELSE peopleToRotate)

\* Step 2: pop the last person and unshift it at the front.
MovePersonMutant(peopleToRotate) ==
    IF Len(peopleToRotate) > 0
        THEN Tail(peopleToRotate) \o <<Head(peopleToRotate)>>
        ELSE peopleToRotate

MoveLastToFront(peopleToRotate) ==
    IF Len(peopleToRotate) > 0
        THEN <<peopleToRotate[Len(peopleToRotate)]>>
             \o SubSeq(peopleToRotate, 1, Len(peopleToRotate) - 1)
        ELSE peopleToRotate

\* The default branch of step 3: up to capacity people from personIndex on
\* (personIndex counts the people already handed out).
TakeGroupMutant(peopleToRotate, personIndex, capacity) ==
    SubSeq(peopleToRotate, personIndex + 1,
           IF personIndex + capacity + 1 < Len(peopleToRotate)
               THEN personIndex + capacity + 1 ELSE Len(peopleToRotate))

TakeGroup(peopleToRotate, personIndex, capacity) ==
    SubSeq(peopleToRotate, personIndex + 1,
           IF personIndex + capacity < Len(peopleToRotate)
               THEN personIndex + capacity ELSE Len(peopleToRotate))

\* newGroup of task i in step 3.
NewGroupMutant(i, peopleToRotate, personIndex) ==
    LET seva == SevaAt(i)
    IN  IF seva = "Yard" THEN << >>
        ELSE IF seva = "Grocery"
            THEN TakeGroup(peopleToRotate, personIndex, 1) \o <<"Bhagirath Bhai">>
        ELSE TakeGroup(peopleToRotate, personIndex, CapacityAt(i))

NewGroup(i, peopleToRotate, personIndex) ==
    LET seva == SevaAt(i)
    IN  IF seva = "Yard" THEN <<"Volunteer">>
        ELSE IF seva = "Grocery"
            THEN <<"Bhagirath Bhai">> \o TakeGroup(peopleToRotate, personIndex, 1)
        ELSE TakeGroup(peopleToRotate, personIndex, CapacityAt(i))

TakenMutant(i, peopleToRotate, personIndex) ==
    IF SevaAt(i) = "Yard" THEN 0
    ELSE IF SevaAt(i) = "Grocery"
        THEN Len(TakeGroup(peopleToRotate, personIndex, 1))
    ELSE 0

\* How far step 3 advances personIndex at task i.
Taken(i, peopleToRotate, personIndex) ==
    IF SevaAt(i) = "Yard" THEN 0
    ELSE IF SevaAt(i) = "Grocery"
        THEN Len(TakeGroup(peopleToRotate, personIndex, 1))
    ELSE Len(TakeGroup(peopleToRotate, personIndex, CapacityAt(i)))

\* Step 3: the redistribution loop, from task i onwards.
RECURSIVE Redistribute(_, _, _, _)
Redistribute(assignments, peopleToRotate, i, personIndex) ==
    IF i > Len(assignments) THEN assignments
    ELSE Redistribute(
             [assignments EXCEPT ![i] = NewGroup(i, peopleToRotate, personIndex)],
             peopleToRotate, i + 1,
             personIndex + Taken(i, peopleToRotate, personIndex))

\* The assignments rotatePeople leaves in currentAssignments.
Rotated(assignments) ==
    Redistribute(assignments,
                 MoveLastToFront(CollectPeople(assignments, 1, << >>)), 1, 0)

\* A JSON null where a list of occupants is expected: a value that is not
\* a sequence.  Every other entry of a table is a sequence of names.
JsonNull == [k \in {0} |-> "null"]
IsArray(x) == DOMAIN x = 1..Cardinality(DOMAIN x)

\* Step 1 throws a TypeError when it iterates over Grocery's occupants and
\* they are null.
RotationThrows(assignments) ==
    \E i \in 1..Len(assignments) :
        SevaAt(i) = "Grocery" /\ ~IsArray(assignments[i])

renderTableMutant(assignments) ==
    [i \in DOMAIN SEVA_TASKS |->
        IF i \in DOMAIN assignments /\ IsArray(assignments[i]) /\ i # 12
            THEN assignments[i] ELSE << >>]

\* renderTable: one row per task of SEVA_TASKS, showing the names of
\* currentAssignments[i] || [].
renderTable(assignments) ==
    [i \in DOMAIN SEVA_TASKS |->
        IF i \in DOMAIN assignments /\ IsArray(assignments[i])
            THEN assignments[i] ELSE << >>]

\* ------------------------------------------------------------------------
\* State
\* ------------------------------------------------------------------------
VARIABLES
    now,                \* the wall clock, in milliseconds
    phase,              \* per client: "closed", "connecting" or "running"
    currentAssignments, \* per client: the module-level currentAssignments
    localStorage,       \* per client: the browser's localStorage
    syncState,          \* per client: the module-level syncState
    jsonbinBinId,       \* per client: SYNC_CONFIG.jsonbinBinId
    rendered,           \* per client: the rows renderTable last drew
    polling,            \* per client: the setInterval of startJsonBinSync runs
    pushTimers,         \* per client: due times of the setTimeout(pushToJsonBin),
                        \* in the order they were set
    call,               \* per client: the fetch in flight and its answer
    bins,               \* the JSONBin store: the record of every bin id
    lastOp,             \* the handler that ran last and the branch it took
    lastMutationAt,     \* per client: when the user last rotated or reset
    mutations,          \* user mutations so far
    failures,           \* transport failures so far
    isLoggedIn,         \* per client: the module-level isLoggedIn
    monitor,            \* per client: the timers of the sync monitoring
    page                \* per client: the document, its listeners and the
                        \* runs of initializeApp

vars == << now, phase, currentAssignments, localStorage, syncState,
           jsonbinBinId, rendered, polling, pushTimers, call, bins, lastOp,
           lastMutationAt, mutations, failures, isLoggedIn, monitor, page >>

\* The bin id written into SYNC_CONFIG, and a bin that does not exist.
SharedBin == 0
Absent == [status |-> "notfound"]
Idle == [kind |-> "idle"]

\* The timers of the sync monitoring: the next run of the setInterval of
\* startSyncMonitoring and the due times of the setTimeout calls of
\* attemptReconnection.  Before initializeGlobalSync there are none.
Stopped == [started |-> FALSE, nextTick |-> 0, resets |-> {}]
Started(t) == [started |-> TRUE, nextTick |-> t + SYNC_INTERVAL, resets |-> {}]

\* checkLoginState: sessionStorage holds the login of the admin's browser.
LoginState(c) == c \in Admins

\* The document when app.js is about to be evaluated in the given
\* readyState: no listener is registered, no timer runs, and
\* DOMContentLoaded has been dispatched only if the document is complete.
Document(readyState) ==
    [readyState |-> readyState, evaluated |-> FALSE,
     contentLoaded |-> readyState = "complete",
     listeners |-> 0, initRuns |-> 0, keydownListeners |-> 0,
     reloadIntervals |-> 0, monitorIntervals |-> 0, jsonbinIntervals |-> 0]

\* What the synchronous part of one run of initializeApp adds to the
\* document: the keydown listener of setupEventListeners (a new function
\* object in each run) and the intervals of startRealTimeSync and
\* startSyncMonitoring.
Initialized(p) ==
    [p EXCEPT !.initRuns = @ + 1, !.keydownListeners = @ + 1,
              !.reloadIntervals = @ + 1, !.monitorIntervals = @ + 1]

\* startJsonBinSync adds the polling interval.
Polling(p) == [p EXCEPT !.jsonbinIntervals = @ + 1]

\* app.js has been evaluated: initializeApp is registered for
\* DOMContentLoaded (registering the same function twice leaves one
\* listener).
Evaluated(p) == [p EXCEPT !.evaluated = TRUE, !.listeners = 1]

\* The document of a session that was loaded while parsing and polls.
LoadedDocument ==
    Polling(Initialized(
        [Evaluated(Document("loading")) EXCEPT !.contentLoaded = TRUE]))

\* ------------------------------------------------------------------------
\* Local handlers
\* ------------------------------------------------------------------------
\* saveAssignments: what it leaves in localStorage[c], syncState[c] and
\* pushTimers[c] when currentAssignments has become assignments.
SavedStorageMutant(c, assignments) ==
    [localStorage[c] EXCEPT
        ![STORAGE_KEY] = [assignments |-> currentAssignments[c],
                          timestamp |-> getCurrentTimestamp(now)],
        ![LAST_UPDATED_KEY] = getCurrentTimestamp(now)]

SavedStorage(c, assignments) ==
    [localStorage[c] EXCEPT
        ![STORAGE_KEY] = [assignments |-> assignments,
                          timestamp |-> getCurrentTimestamp(now)],
        ![LAST_UPDATED_KEY] = getCurrentTimestamp(now)]

saveAssignments(c, assignments) ==
    /\ localStorage' = [localStorage EXCEPT ![c] = SavedStorage(c, assignments)]
    /\ syncState' = [syncState EXCEPT ![c].pendingChanges = TRUE]
    /\ pushTimers' = [pushTimers EXCEPT ![c] =
                         IF syncState[c].jsonbinConnected
                             THEN Append(@, now + PUSH_DELAY) ELSE @]

rotatePeopleMutant(c) ==
    LET rotated == Rotated(currentAssignments[c])
    IN  /\ phase[c] # "closed"
        /\ IF RotationThrows(currentAssignments[c])
               THEN /\ lastOp' = [op |-> "rotatePeople", client |-> c,
                                  branch |-> "error", renders |-> 0]
                    /\ saveAssignments(c, currentAssignments[c])
                    /\ UNCHANGED << currentAssignments, rendered,
                                    lastMutationAt >>
               ELSE /\ currentAssignments' =
                           [currentAssignments EXCEPT ![c] = rotated]
                    /\ saveAssignments(c, rotated)
                    /\ rendered' = [rendered EXCEPT ![c] = renderTable(rotated)]
                    /\ lastMutationAt' = [lastMutationAt EXCEPT ![c] = now]
                    /\ lastOp' = [op |-> "rotatePeople", client |-> c,
                                  branch |-> "done", renders |-> 1]
        /\ UNCHANGED << now, phase, jsonbinBinId, polling, call, bins,
                        failures, isLoggedIn, monitor, page >>

\* rotatePeople: rotate, save, render; an exception of step 1 is caught and
\* reported, and nothing else is done.
rotatePeople(c) ==
    LET rotated == Rotated(currentAssignments[c])
    IN  /\ phase[c] # "closed"
        /\ IF RotationThrows(currentAssignments[c])
               THEN /\ lastOp' = [op |-> "rotatePeople", client |-> c,
                                  branch |-> "error", renders |-> 0]
                    /\ UNCHANGED << currentAssignments, localStorage,
                                    syncState, pushTimers, rendered,
                                    lastMutationAt >>
               ELSE /\ currentAssignments' =
                           [currentAssignments EXCEPT ![c] = rotated]
                    /\ saveAssignments(c, rotated)
                    /\ rendered' = [rendered EXCEPT ![c] = renderTable(rotated)]
                    /\ lastMutationAt' = [lastMutationAt EXCEPT ![c] = now]
                    /\ lastOp' = [op |-> "rotatePeople", client |-> c,
                                  branch |-> "done", renders |-> 1]
        /\ UNCHANGED << now, phase, jsonbinBinId, polling, call, bins,
                        failures, isLoggedIn, monitor, page >>

resetToDefaultMutant(c) ==
    /\ phase[c] # "closed"
    /\ currentAssignments' =
           [currentAssignments EXCEPT ![c] = Rotated(DEFAULT_ASSIGNMENTS)]
    /\ saveAssignments(c, Rotated(DEFAULT_ASSIGNMENTS))
    /\ rendered' = [rendered EXCEPT ![c] =
                       renderTable(Rotated(DEFAULT_ASSIGNMENTS))]
    /\ lastMutationAt' = [lastMutationAt EXCEPT ![c] = now]
    /\ lastOp' = [op |-> "resetToDefault", client |-> c, branch |-> "done",
                  renders |-> 1]
    /\ UNCHANGED << now, phase, jsonbinBinId, polling, call, bins,
                    failures,
                    isLoggedIn, monitor, page >>

\* resetToDefault once the user confirmed the dialog.
resetToDefault(c) ==
    /\ phase[c] # "closed"
    /\ currentAssignments' = [currentAssignments EXCEPT ![c] = DEFAULT_ASSIGNMENTS]
    /\ saveAssignments(c, DEFAULT_ASSIGNMENTS)
    /\ rendered' = [rendered EXCEPT ![c] = renderTable(DEFAULT_ASSIGNMENTS)]
    /\ lastMutationAt' = [lastMutationAt EXCEPT ![c] = now]
    /\ lastOp' = [op |-> "resetToDefault", client |-> c, branch |-> "done",
                  renders |-> 1]
    /\ UNCHANGED << now, phase, jsonbinBinId, polling, call, bins,
                    failures,
                    isLoggedIn, monitor, page >>

\* ------------------------------------------------------------------------
\* The JSONBin store
\* ------------------------------------------------------------------------
Exists(binId) == binId \in DOMAIN bins /\ bins[binId] # Absent

\* A fetch may fail while the failure budget lasts: a non-OK status other
\* than 404 ("error"), or a rejected fetch or unreadable body ("exception").
Failing == IF failures < MaxFailures
               THEN {[status |-> "error"], [status |-> "exception"]} ELSE {}

Failed(response) == response.status \in {"error", "exception"}

\* GET /b/<binId>/latest
GetResponses(binId) ==
    Failing \cup (IF Exists(binId)
                     THEN {[status |-> "ok", record |-> bins[binId]]}
                     ELSE {[status |-> "notfound"]})

\* PUT /b/<binId>
PutResponses(binId) ==
    Failing \cup (IF Exists(binId) THEN {[status |-> "ok"]}
                                   ELSE {[status |-> "notfound"]})

\* POST /b answers with the id of the bin it created.
NewBinId == Cardinality(DOMAIN bins)
PostResponses == Failing \cup {[status |-> "ok", id |-> NewBinId]}

DataToPushMutant(c) ==
    [assignments |-> currentAssignments[c],
     timestamp |-> getCurrentTimestamp(now),
     lastModifiedBy |-> c]

\* The record pushToJsonBin and createNewJsonBin serialise.
DataToPush(c) ==
    [assignments |-> currentAssignments[c],
     timestamp |-> toISOString(now),
     lastModifiedBy |-> c]

\* ------------------------------------------------------------------------
\* handleRemoteUpdate
\* ------------------------------------------------------------------------
Abs(x) == IF x < 0 THEN 0 - x ELSE x

\* The branch handleRemoteUpdate takes for remoteData.
RemoteBranchMutant(c, remoteData) ==
    LET remoteTimestamp == DateGetTime(remoteData.timestamp)
        localTimestamp == DateGetTime(localStorage[c][LAST_UPDATED_KEY])
        timeDiff == remoteTimestamp - localTimestamp
    IN  IF remoteData.lastModifiedBy = c /\ Abs(timeDiff) < ECHO_TOLERANCE
            THEN "echo"
        ELSE IF remoteTimestamp >= localTimestamp \/ localTimestamp = 0
            THEN "adopt"
        ELSE "stale"

RemoteBranch(c, remoteData) ==
    LET remoteTimestamp == DateGetTime(remoteData.timestamp)
        localTimestamp == DateGetTime(localStorage[c][LAST_UPDATED_KEY])
        timeDiff == remoteTimestamp - localTimestamp
    IN  IF remoteData.lastModifiedBy = c /\ Abs(timeDiff) < ECHO_TOLERANCE
            THEN "echo"
        ELSE IF remoteTimestamp > localTimestamp \/ localTimestamp = 0
            THEN "adopt"
        ELSE "stale"

\* The check for a potential conflict: pending changes less than two
\* seconds old and a newer remote record.  It leads to a log line only.
PotentialConflict(c, remoteData) ==
    LET remoteTimestamp == DateGetTime(remoteData.timestamp)
        localTimestamp == DateGetTime(localStorage[c][LAST_UPDATED_KEY])
    IN  /\ RemoteBranch(c, remoteData) # "echo"
        /\ syncState[c].pendingChanges
        /\ now - localTimestamp < CONFLICT_WINDOW
        /\ remoteTimestamp > localTimestamp

\* What handleRemoteUpdate(remoteData) leaves of client c's state.
AdoptedMutant(c, remoteData) ==
    [currentAssignments |-> remoteData.assignments,
     localStorage |-> [localStorage[c] EXCEPT ![STORAGE_KEY] = remoteData],
     pendingChanges |-> syncState[c].pendingChanges,
     conflictDetected |-> syncState[c].conflictDetected,
     rendered |-> rendered[c],
     renders |-> 0]

Adopted(c, remoteData) ==
    [currentAssignments |-> remoteData.assignments,
     localStorage |-> [localStorage[c] EXCEPT
                          ![STORAGE_KEY] = remoteData,
                          ![LAST_UPDATED_KEY] = remoteData.timestamp],
     pendingChanges |-> FALSE,
     conflictDetected |-> syncState[c].conflictDetected,
     rendered |-> renderTable(remoteData.assignments),
     renders |-> 1]

Kept(c, pending) ==
    [currentAssignments |-> currentAssignments[c],
     localStorage |-> localStorage[c],
     pendingChanges |-> pending,
     conflictDetected |-> syncState[c].conflictDetected,
     rendered |-> rendered[c],
     renders |-> 0]

handleRemoteUpdateMutant(c, remoteData) ==
    LET branch == RemoteBranch(c, remoteData)
    IN  IF branch = "echo" THEN Adopted(c, remoteData)
        ELSE IF branch = "adopt" THEN Adopted(c, remoteData)
        ELSE Kept(c, syncState[c].pendingChanges)

handleRemoteUpdate(c, remoteData) ==
    LET branch == RemoteBranch(c, remoteData)
    IN  IF branch = "echo" THEN Kept(c, FALSE)
        ELSE IF branch = "adopt" THEN Adopted(c, remoteData)
        ELSE Kept(c, syncState[c].pendingChanges)

ApplyRemoteMutant(c, remoteData, connected) ==
    LET after == handleRemoteUpdate(c, remoteData)
    IN  /\ currentAssignments' =
               [currentAssignments EXCEPT ![c] = after.currentAssignments]
        /\ localStorage' = [localStorage EXCEPT ![c] = after.localStorage]
        /\ rendered' = [rendered EXCEPT ![c] = after.rendered]
        /\ syncState' = [syncState EXCEPT
                            ![c].jsonbinConnected = connected,
                            ![c].pendingChanges = after.pendingChanges,
                            ![c].conflictDetected =
                                PotentialConflict(c, remoteData)]

\* The assignments that follow a handled response: the client's state as
\* handleRemoteUpdate left it, with jsonbinConnected as the caller sets it.
ApplyRemote(c, remoteData, connected) ==
    LET after == handleRemoteUpdate(c, remoteData)
    IN  /\ currentAssignments' =
               [currentAssignments EXCEPT ![c] = after.currentAssignments]
        /\ localStorage' = [localStorage EXCEPT ![c] = after.localStorage]
        /\ rendered' = [rendered EXCEPT ![c] = after.rendered]
        /\ syncState' = [syncState EXCEPT
                            ![c].jsonbinConnected = connected,
                            ![c].pendingChanges = after.pendingChanges,
                            ![c].conflictDetected = after.conflictDetected]

\* ------------------------------------------------------------------------
\* createNewJsonBin
\* ------------------------------------------------------------------------
Other(c) == [op |-> "other", client |-> c, branch |-> "none", renders |-> 0]

\* The call up to its await: POST the current assignments as a new bin.
\* caller is the function that awaits createNewJsonBin.
createNewJsonBin(c, caller) ==
    \E response \in PostResponses :
        /\ call' = [call EXCEPT ![c] =
               [kind |-> "createNewJsonBin", response |-> response,
                caller |-> caller]]
        /\ bins' = IF response.status = "ok"
                       THEN bins @@ (response.id :> DataToPush(c)) ELSE bins
        /\ failures' = IF Failed(response) THEN failures + 1 ELSE failures

\* The rest of createNewJsonBin, and of initializeJsonBinSync when that is
\* what awaited it (startJsonBinSync, jsonbinConnected = true).
createNewJsonBinResume(c) ==
    /\ call[c].kind = "createNewJsonBin"
    /\ LET response == call[c].response
           fromInit == call[c].caller = "createOrLoadJsonBin"
       IN  /\ jsonbinBinId' = IF response.status = "ok"
                                  THEN [jsonbinBinId EXCEPT ![c] = response.id]
                                  ELSE jsonbinBinId
           /\ localStorage' = IF response.status = "ok"
                                  THEN [localStorage EXCEPT
                                           ![c].jsonbinBinId = response.id]
                                  ELSE localStorage
           /\ syncState' = [syncState EXCEPT ![c].jsonbinConnected =
                               IF fromInit THEN TRUE
                               ELSE IF response.status = "ok" THEN @
                               ELSE FALSE]
           /\ polling' = IF fromInit THEN [polling EXCEPT ![c] = TRUE]
                                     ELSE polling
           /\ phase' = IF fromInit THEN [phase EXCEPT ![c] = "running"]
                                   ELSE phase
    /\ call' = [call EXCEPT ![c] = Idle]
    /\ lastOp' = Other(c)
    /\ page' = IF call[c].caller = "createOrLoadJsonBin"
                   THEN [page EXCEPT ![c] = Polling(@)] ELSE page
    /\ UNCHANGED << now, currentAssignments, rendered, pushTimers, bins,
                    lastMutationAt, mutations, failures,
                    isLoggedIn, monitor >>

\* ------------------------------------------------------------------------
\* Start-up: initializeApp, initializeJsonBinSync, createOrLoadJsonBin
\* ------------------------------------------------------------------------
LoadedMutant(c) ==
    IF localStorage[c][STORAGE_KEY] # NoItem
        THEN SubSeq(localStorage[c][STORAGE_KEY].assignments, 1, 11)
        ELSE DEFAULT_ASSIGNMENTS

\* loadAssignments
Loaded(c) ==
    IF localStorage[c][STORAGE_KEY] # NoItem
        THEN localStorage[c][STORAGE_KEY].assignments
        ELSE DEFAULT_ASSIGNMENTS

\* One run of initializeApp up to the first await of createOrLoadJsonBin
\* (one fetch is followed at a time); what it adds to the document is
\* Initialized.
initializeApp(c) ==
    /\ call[c] = Idle
    /\ phase' = [phase EXCEPT ![c] = "connecting"]
    /\ currentAssignments' = [currentAssignments EXCEPT ![c] = Loaded(c)]
    /\ rendered' = [rendered EXCEPT ![c] = renderTable(Loaded(c))]
    /\ \E response \in GetResponses(jsonbinBinId[c]) :
         /\ call' = [call EXCEPT ![c] =
                        [kind |-> "createOrLoadJsonBin", response |-> response]]
         /\ failures' = IF Failed(response) THEN failures + 1 ELSE failures
    /\ isLoggedIn' = [isLoggedIn EXCEPT ![c] = LoginState(c)]
    /\ monitor' = [monitor EXCEPT ![c] = Started(now)]
    /\ lastOp' = Other(c)
    /\ UNCHANGED << now, localStorage, syncState, jsonbinBinId, polling,
                    pushTimers, bins, lastMutationAt, mutations >>

\* The application start-up at the end of app.js, evaluated while the
\* document is still loading, and the DOMContentLoaded event that follows:
\* the registered listener runs initializeApp.
PageLoads(c) ==
    /\ phase[c] = "closed"
    /\ page[c] = Document("loading")
    /\ initializeApp(c)
    /\ page' = [page EXCEPT ![c] =
                    Initialized([Evaluated(@) EXCEPT !.contentLoaded = TRUE])]

\* createOrLoadJsonBin once the bin answered with a record, or with a status
\* that is neither OK nor 404; then the rest of initializeJsonBinSync.
createOrLoadJsonBinResume(c) ==
    /\ call[c].kind = "createOrLoadJsonBin"
    /\ call[c].response.status \in {"ok", "error"}
    /\ LET response == call[c].response
       IN  IF response.status = "ok"
               THEN /\ ApplyRemote(c, response.record, TRUE)
                    /\ lastOp' = [op |-> "handleRemoteUpdate", client |-> c,
                                  branch |-> RemoteBranch(c, response.record),
                                  conflict |->
                                      PotentialConflict(c, response.record),
                                  renders |->
                                      handleRemoteUpdate(c, response.record).renders]
               ELSE /\ syncState' = [syncState EXCEPT ![c].jsonbinConnected = TRUE]
                    /\ lastOp' = Other(c)
                    /\ UNCHANGED << currentAssignments, localStorage, rendered >>
    /\ call' = [call EXCEPT ![c] = Idle]
    /\ polling' = [polling EXCEPT ![c] = TRUE]
    /\ phase' = [phase EXCEPT ![c] = "running"]
    /\ page' = [page EXCEPT ![c] = Polling(@)]
    /\ UNCHANGED << now, jsonbinBinId, pushTimers, bins, lastMutationAt,
                    mutations, failures,
                    isLoggedIn, monitor >>

\* createOrLoadJsonBin once the bin answered 404 or the fetch threw: it
\* goes on to createNewJsonBin.
createOrLoadJsonBinCreate(c) ==
    /\ call[c].kind = "createOrLoadJsonBin"
    /\ call[c].response.status \in {"notfound", "exception"}
    /\ createNewJsonBin(c, "createOrLoadJsonBin")
    /\ lastOp' = Other(c)
    /\ UNCHANGED << now, phase, currentAssignments, localStorage, syncState,
                    jsonbinBinId, rendered, polling, pushTimers,
                    lastMutationAt, mutations,
                    isLoggedIn, monitor, page >>

\* ------------------------------------------------------------------------
\* Polling: checkForJsonBinUpdates
\* ------------------------------------------------------------------------
\* A tick of the setInterval of startJsonBinSync, up to the await.
checkForJsonBinUpdates(c) ==
    /\ polling[c]
    /\ call[c] = Idle
    /\ \E response \in GetResponses(jsonbinBinId[c]) :
         /\ call' = [call EXCEPT ![c] =
                        [kind |-> "checkForJsonBinUpdates",
                         response |-> response]]
         /\ failures' = IF Failed(response) THEN failures + 1 ELSE failures
    /\ lastOp' = Other(c)
    /\ UNCHANGED << now, phase, currentAssignments, localStorage, syncState,
                    jsonbinBinId, rendered, polling, pushTimers, bins,
                    lastMutationAt, mutations,
                    isLoggedIn, monitor, page >>

\* The rest of checkForJsonBinUpdates when the answer is a record, a non-OK
\* status other than 404, or an exception.
checkForJsonBinUpdatesResume(c) ==
    /\ call[c].kind = "checkForJsonBinUpdates"
    /\ call[c].response.status # "notfound"
    /\ LET response == call[c].response
       IN  IF response.status = "ok"
               THEN /\ ApplyRemote(c, response.record,
                                   syncState[c].jsonbinConnected)
                    /\ lastOp' = [op |-> "handleRemoteUpdate", client |-> c,
                                  branch |-> RemoteBranch(c, response.record),
                                  conflict |->
                                      PotentialConflict(c, response.record),
                                  renders |->
                                      handleRemoteUpdate(c, response.record).renders]
               ELSE /\ syncState' = [syncState EXCEPT ![c].jsonbinConnected =
                                        IF response.status = "exception"
                                            THEN FALSE ELSE @]
                    /\ lastOp' = Other(c)
                    /\ UNCHANGED << currentAssignments, localStorage, rendered >>
    /\ call' = [call EXCEPT ![c] = Idle]
    /\ UNCHANGED << now, phase, jsonbinBinId, polling, pushTimers, bins,
                    lastMutationAt, mutations, failures,
                    isLoggedIn, monitor, page >>

\* The rest of checkForJsonBinUpdates when the bin is gone (404).
checkForJsonBinUpdatesCreate(c) ==
    /\ call[c].kind = "checkForJsonBinUpdates"
    /\ call[c].response.status = "notfound"
    /\ createNewJsonBin(c, "checkForJsonBinUpdates")
    /\ lastOp' = Other(c)
    /\ UNCHANGED << now, phase, currentAssignments, localStorage, syncState,
                    jsonbinBinId, rendered, polling, pushTimers,
                    lastMutationAt, mutations,
                    isLoggedIn, monitor, page >>

\* ------------------------------------------------------------------------
\* Pushing: pushToJsonBin
\* ------------------------------------------------------------------------
pushToJsonBinMutant(c) ==
    /\ call[c] = Idle
    /\ pushTimers[c] # << >>
    /\ Head(pushTimers[c]) <= now
    /\ pushTimers' = [pushTimers EXCEPT ![c] = Tail(@)]
    /\ \E response \in PutResponses(jsonbinBinId[c]) :
         /\ call' = [call EXCEPT ![c] =
                        [kind |-> "pushToJsonBin", response |-> response]]
         /\ bins' = IF response.status = "ok"
                        THEN [bins EXCEPT ![jsonbinBinId[c]] =
                                 [DataToPush(c) EXCEPT !.timestamp =
                                     toISOString(Head(pushTimers[c]) - PUSH_DELAY)]]
                        ELSE bins
         /\ failures' = IF Failed(response) THEN failures + 1 ELSE failures
    /\ lastOp' = Other(c)
    /\ UNCHANGED << now, phase, currentAssignments, localStorage, syncState,
                    jsonbinBinId, rendered, polling, lastMutationAt,
                    mutations, isLoggedIn, monitor, page >>

\* A setTimeout of saveAssignments fires: pushToJsonBin up to its await.
pushToJsonBin(c) ==
    /\ call[c] = Idle
    /\ pushTimers[c] # << >>
    /\ Head(pushTimers[c]) <= now
    /\ pushTimers' = [pushTimers EXCEPT ![c] = Tail(@)]
    /\ \E response \in PutResponses(jsonbinBinId[c]) :
         /\ call' = [call EXCEPT ![c] =
                        [kind |-> "pushToJsonBin", response |-> response]]
         /\ bins' = IF response.status = "ok"
                        THEN [bins EXCEPT ![jsonbinBinId[c]] = DataToPush(c)]
                        ELSE bins
         /\ failures' = IF Failed(response) THEN failures + 1 ELSE failures
    /\ lastOp' = Other(c)
    /\ UNCHANGED << now, phase, currentAssignments, localStorage, syncState,
                    jsonbinBinId, rendered, polling, lastMutationAt,
                    mutations, isLoggedIn, monitor, page >>

\* What the answer to the PUT leaves in syncState[c].
PushFailedMutant(c, status) ==
    [syncState[c] EXCEPT !.pendingChanges = FALSE]

PushAnswered(c, status) ==
    [syncState[c] EXCEPT
        !.jsonbinConnected = IF status = "ok" THEN @ ELSE FALSE,
        !.pendingChanges = IF status = "ok" THEN FALSE ELSE @]

pushToJsonBinResumeMutant(c) ==
    /\ call[c].kind = "pushToJsonBin"
    /\ call[c].response.status # "notfound"
    /\ syncState' = [syncState EXCEPT ![c] =
                        PushAnswered(c, call[c].response.status)]
    /\ currentAssignments' =
           [currentAssignments EXCEPT ![c] =
               IF Failed(call[c].response) THEN DEFAULT_ASSIGNMENTS ELSE @]
    /\ call' = [call EXCEPT ![c] = Idle]
    /\ lastOp' = [op |-> "pushToJsonBin", client |-> c,
                  branch |-> call[c].response.status, renders |-> 0]
    /\ UNCHANGED << now, phase, localStorage, jsonbinBinId, rendered, polling,
                    pushTimers, bins, lastMutationAt, mutations, failures,
                    isLoggedIn, monitor, page >>

\* The rest of pushToJsonBin on an OK answer, a non-OK status other than
\* 404, or an exception.
pushToJsonBinResume(c) ==
    /\ call[c].kind = "pushToJsonBin"
    /\ call[c].response.status # "notfound"
    /\ syncState' = [syncState EXCEPT ![c] =
                        PushAnswered(c, call[c].response.status)]
    /\ call' = [call EXCEPT ![c] = Idle]
    /\ lastOp' = [op |-> "pushToJsonBin", client |-> c,
                  branch |-> call[c].response.status, renders |-> 0]
    /\ UNCHANGED << now, phase, currentAssignments, localStorage,
                    jsonbinBinId, rendered, polling, pushTimers, bins,
                    lastMutationAt, mutations, failures,
                    isLoggedIn, monitor, page >>

\* The rest of pushToJsonBin when the bin is gone (404).
pushToJsonBinCreate(c) ==
    /\ call[c].kind = "pushToJsonBin"
    /\ call[c].response.status = "notfound"
    /\ createNewJsonBin(c, "pushToJsonBin")
    /\ lastOp' = Other(c)
    /\ UNCHANGED << now, phase, currentAssignments, localStorage, syncState,
                    jsonbinBinId, rendered, polling, pushTimers,
                    lastMutationAt, mutations,
                    isLoggedIn, monitor, page >>

\* ------------------------------------------------------------------------
\* The system: browser sessions sharing the JSONBin store
\* ------------------------------------------------------------------------
\* The record the shared bin holds when the sessions open, if it exists.
SeedRecord ==
    [assignments |-> Rotated(DEFAULT_ASSIGNMENTS),
     timestamp |-> toISOString(StartTime - TimeStep),
     lastModifiedBy |-> "viewer_0"]

Init ==
    /\ now = StartTime
    /\ phase = [c \in Clients |-> "closed"]
    /\ currentAssignments = [c \in Clients |-> << >>]
    /\ rendered = [c \in Clients |-> << >>]
    /\ localStorage = [c \in Clients |->
                          [sevaAppData |-> NoItem,
                           sevaAppLastUpdated |-> NoItem,
                           jsonbinBinId |-> NoItem]]
    /\ syncState = [c \in Clients |->
                       [isOnline |-> TRUE, jsonbinConnected |-> FALSE,
                        pendingChanges |-> FALSE, conflictDetected |-> FALSE,
                        retryCount |-> 0]]
    /\ jsonbinBinId = [c \in Clients |-> SharedBin]
    /\ polling = [c \in Clients |-> FALSE]
    /\ pushTimers = [c \in Clients |-> << >>]
    /\ call = [c \in Clients |-> Idle]
    /\ bins \in {(SharedBin :> SeedRecord), (SharedBin :> Absent)}
    /\ lastOp = Other(RotClient)
    /\ lastMutationAt = [c \in Clients |-> 0]
    /\ mutations = 0
    /\ failures = 0
    /\ isLoggedIn = [c \in Clients |-> FALSE]
    /\ monitor = [c \in Clients |-> Stopped]
    /\ page = [c \in Clients |-> Document("loading")]

\* Time passes.
Tick ==
    /\ now + TimeStep <= MaxNow
    /\ now' = now + TimeStep
    /\ UNCHANGED << phase, currentAssignments, localStorage, syncState,
                    jsonbinBinId, rendered, polling, pushTimers, call, bins,
                    lastOp, lastMutationAt, mutations, failures,
                    isLoggedIn, monitor, page >>

\* A click on the rotate or the reset button of the admin controls, which
\* are shown while the user is logged in.
UserRotates(c) ==
    /\ isLoggedIn[c]
    /\ mutations < MaxMutations
    /\ rotatePeople(c)
    /\ mutations' = mutations + 1

UserResets(c) ==
    /\ isLoggedIn[c]
    /\ mutations < MaxMutations
    /\ resetToDefault(c)
    /\ mutations' = mutations + 1

Next ==
    \/ Tick
    \/ \E c \in Clients :
         \/ PageLoads(c)
         \/ createOrLoadJsonBinResume(c)
         \/ createOrLoadJsonBinCreate(c)
         \/ createNewJsonBinResume(c)
         \/ checkForJsonBinUpdates(c)
         \/ checkForJsonBinUpdatesResume(c)
         \/ checkForJsonBinUpdatesCreate(c)
         \/ pushToJsonBin(c)
         \/ pushToJsonBinResume(c)
         \/ pushToJsonBinCreate(c)
    \/ \E c \in Admins :
         \/ UserRotates(c)
         \/ UserResets(c)

Spec == Init /\ [][Next]_vars

\* ------------------------------------------------------------------------
\* One session with its online and offline events
\* ------------------------------------------------------------------------
\* handleOnlineStatusChange: the browser's online or offline event.  Firebase
\* is not loaded, so only syncState.isOnline changes.
handleOnlineStatusChange(c) ==
    /\ phase[c] # "closed"
    /\ syncState' = [syncState EXCEPT ![c].isOnline = ~@]
    /\ lastOp' = [op |-> "handleOnlineStatusChange", client |-> c,
                  branch |-> IF syncState[c].isOnline THEN "offline"
                                                      ELSE "online",
                  renders |-> 0]
    /\ UNCHANGED << now, phase, currentAssignments, localStorage,
                    jsonbinBinId, rendered, polling, pushTimers, call, bins,
                    lastMutationAt, mutations, failures,
                    isLoggedIn, monitor, page >>

\* rotatePeople run n times in a row.
RECURSIVE RotatedTimes(_, _)
RotatedTimes(assignments, n) ==
    IF n = 0 THEN assignments ELSE Rotated(RotatedTimes(assignments, n - 1))

\* A keydown event with Ctrl+R or Cmd+R: every keydown listener that
\* setupEventListeners registered calls rotatePeople, one after the other.
Keydown(c) ==
    LET n == page[c].keydownListeners
        rotated == RotatedTimes(currentAssignments[c], n)
    IN  /\ phase[c] # "closed"
        /\ n >= 1
        /\ IF RotationThrows(currentAssignments[c])
               THEN /\ lastOp' = [op |-> "rotatePeople", client |-> c,
                                  branch |-> "error", renders |-> 0]
                    /\ UNCHANGED << currentAssignments, localStorage,
                                    syncState, pushTimers, rendered,
                                    lastMutationAt >>
               ELSE /\ currentAssignments' =
                           [currentAssignments EXCEPT ![c] = rotated]
                    /\ localStorage' = [localStorage EXCEPT ![c] =
                                           SavedStorage(c, rotated)]
                    /\ syncState' = [syncState EXCEPT
                                        ![c].pendingChanges = TRUE]
                    /\ pushTimers' = [pushTimers EXCEPT ![c] =
                           IF syncState[c].jsonbinConnected
                               THEN @ \o [k \in 1..n |-> now + PUSH_DELAY]
                               ELSE @]
                    /\ rendered' = [rendered EXCEPT ![c] = renderTable(rotated)]
                    /\ lastMutationAt' = [lastMutationAt EXCEPT ![c] = now]
                    /\ lastOp' = [op |-> "rotatePeople", client |-> c,
                                  branch |-> "done", renders |-> n]
        /\ UNCHANGED << now, phase, jsonbinBinId, polling, call, bins,
                        failures, isLoggedIn, monitor, page >>

KeydownRotate(c) ==
    /\ mutations < MaxMutations
    /\ Keydown(c)
    /\ mutations' = mutations + 1

\* handleLogin with the right credentials, and handleLogout once the user
\* confirmed the dialog.
handleLogin(c) ==
    /\ phase[c] # "closed"
    /\ ~isLoggedIn[c]
    /\ isLoggedIn' = [isLoggedIn EXCEPT ![c] = TRUE]
    /\ lastOp' = Other(c)
    /\ UNCHANGED << now, phase, currentAssignments, localStorage, syncState,
                    jsonbinBinId, rendered, polling, pushTimers, call, bins,
                    lastMutationAt, mutations, failures, monitor, page >>

handleLogout(c) ==
    /\ phase[c] # "closed"
    /\ isLoggedIn[c]
    /\ isLoggedIn' = [isLoggedIn EXCEPT ![c] = FALSE]
    /\ lastOp' = Other(c)
    /\ UNCHANGED << now, phase, currentAssignments, localStorage, syncState,
                    jsonbinBinId, rendered, polling, pushTimers, call, bins,
                    lastMutationAt, mutations, failures, monitor, page >>

\* The two handlers that ask for confirmation before they reset.
ConfirmingHandlers == {"resetToDefault", "clearStorageAndReset"}

DeclinedMutant(c, handler) ==
    /\ phase[c] # "closed"
    /\ saveAssignments(c, currentAssignments[c])
    /\ lastOp' = [op |-> "confirm", client |-> c, branch |-> "declined",
                  handler |-> handler, renders |-> 0]
    /\ UNCHANGED << now, phase, currentAssignments, jsonbinBinId, rendered,
                    polling, call, bins, lastMutationAt, mutations, failures,
                    isLoggedIn, monitor, page >>

\* resetToDefault or clearStorageAndReset when the user answers confirm()
\* with Cancel: the body of the if statement is skipped.
Declined(c, handler) ==
    /\ phase[c] # "closed"
    /\ lastOp' = [op |-> "confirm", client |-> c, branch |-> "declined",
                  handler |-> handler, renders |-> 0]
    /\ UNCHANGED << now, phase, currentAssignments, localStorage, syncState,
                    jsonbinBinId, rendered, polling, pushTimers, call, bins,
                    lastMutationAt, mutations, failures, isLoggedIn,
                    monitor, page >>

\* clearStorageAndReset once the user confirmed the dialog: both items are
\* removed from localStorage, and saveAssignments sets them again.
clearStorageAndReset(c) ==
    LET cleared == [localStorage[c] EXCEPT ![STORAGE_KEY] = NoItem,
                                           ![LAST_UPDATED_KEY] = NoItem]
    IN  /\ phase[c] # "closed"
        /\ currentAssignments' =
               [currentAssignments EXCEPT ![c] = DEFAULT_ASSIGNMENTS]
        /\ localStorage' = [localStorage EXCEPT ![c] =
               [cleared EXCEPT
                   ![STORAGE_KEY] = [assignments |-> DEFAULT_ASSIGNMENTS,
                                     timestamp |-> getCurrentTimestamp(now)],
                   ![LAST_UPDATED_KEY] = getCurrentTimestamp(now)]]
        /\ syncState' = [syncState EXCEPT ![c].pendingChanges = TRUE]
        /\ pushTimers' = [pushTimers EXCEPT ![c] =
                             IF syncState[c].jsonbinConnected
                                 THEN Append(@, now + PUSH_DELAY) ELSE @]
        /\ rendered' = [rendered EXCEPT ![c] =
                           renderTable(DEFAULT_ASSIGNMENTS)]
        /\ lastMutationAt' = [lastMutationAt EXCEPT ![c] = now]
        /\ lastOp' = [op |-> "clearStorageAndReset", client |-> c,
                      branch |-> "done", renders |-> 1]
        /\ UNCHANGED << now, phase, jsonbinBinId, polling, call, bins,
                        failures, isLoggedIn, monitor, page >>

\* A click on the reset or the clear-storage button, answered with Cancel
\* in the dialog; and a click on the clear-storage button, confirmed.
UserDeclines(c) ==
    /\ isLoggedIn[c]
    /\ \E handler \in ConfirmingHandlers : Declined(c, handler)

UserClears(c) ==
    /\ isLoggedIn[c]
    /\ mutations < MaxMutations
    /\ clearStorageAndReset(c)
    /\ mutations' = mutations + 1

\* What an earlier visit of the page left in localStorage: a saved rotation.
PriorStorage ==
    [sevaAppData |-> [assignments |-> Rotated(Rotated(DEFAULT_ASSIGNMENTS)),
                      timestamp |-> getCurrentTimestamp(StartTime - TimeStep)],
     sevaAppLastUpdated |-> getCurrentTimestamp(StartTime - TimeStep),
     jsonbinBinId |-> NoItem]

FreshStorage ==
    [sevaAppData |-> NoItem, sevaAppLastUpdated |-> NoItem,
     jsonbinBinId |-> NoItem]

\* The page is about to be opened in one browser, for the first time or not.
InitSession ==
    /\ now = StartTime
    /\ phase = [c \in Clients |-> "closed"]
    /\ currentAssignments = [c \in Clients |-> << >>]
    /\ rendered = [c \in Clients |-> << >>]
    /\ \E stored \in {FreshStorage, PriorStorage} :
         localStorage = [c \in Clients |->
                            IF c = RotClient THEN stored ELSE FreshStorage]
    /\ syncState = [c \in Clients |->
                       [isOnline |-> TRUE, jsonbinConnected |-> FALSE,
                        pendingChanges |-> FALSE, conflictDetected |-> FALSE,
                        retryCount |-> 0]]
    /\ jsonbinBinId = [c \in Clients |-> SharedBin]
    /\ polling = [c \in Clients |-> FALSE]
    /\ pushTimers = [c \in Clients |-> << >>]
    /\ call = [c \in Clients |-> Idle]
    /\ bins \in {(SharedBin :> SeedRecord), (SharedBin :> Absent)}
    /\ lastOp = Other(RotClient)
    /\ lastMutationAt = [c \in Clients |-> 0]
    /\ mutations = 0
    /\ failures = 0
    /\ isLoggedIn = [c \in Clients |-> FALSE]
    /\ monitor = [c \in Clients |-> Stopped]
    /\ page = [c \in Clients |-> Document("loading")]

NextSession ==
    \/ Tick
    \/ PageLoads(RotClient)
    \/ createOrLoadJsonBinResume(RotClient)
    \/ createOrLoadJsonBinCreate(RotClient)
    \/ createNewJsonBinResume(RotClient)
    \/ checkForJsonBinUpdates(RotClient)
    \/ checkForJsonBinUpdatesResume(RotClient)
    \/ checkForJsonBinUpdatesCreate(RotClient)
    \/ pushToJsonBin(RotClient)
    \/ pushToJsonBinResume(RotClient)
    \/ pushToJsonBinCreate(RotClient)
    \/ UserRotates(RotClient)
    \/ UserResets(RotClient)
    \/ UserClears(RotClient)
    \/ UserDeclines(RotClient)
    \/ KeydownRotate(RotClient)
    \/ handleLogin(RotClient)
    \/ handleLogout(RotClient)
    \/ handleOnlineStatusChange(RotClient)

SpecSession == InitSession /\ [][NextSession]_vars

\* ------------------------------------------------------------------------
\* One session with the periodic reload from localStorage
\* ------------------------------------------------------------------------
\* A run of the setInterval callback of startRealTimeSync: checkForUpdates
\* compares the stored record's timestamp string with the current
\* toLocaleString() and, when they differ, takes the stored assignments
\* as the current ones and renders.  Like the polls, the runs are not tied
\* to the clock.
checkForUpdates(c) ==
    LET storedData == localStorage[c][STORAGE_KEY]
        reloads == storedData # NoItem
                   /\ storedData.timestamp # getCurrentTimestamp(now)
    IN  /\ phase[c] # "closed"
        /\ currentAssignments' =
               [currentAssignments EXCEPT ![c] =
                   IF reloads THEN storedData.assignments ELSE @]
        /\ rendered' =
               [rendered EXCEPT ![c] =
                   IF reloads THEN renderTable(storedData.assignments) ELSE @]
        /\ lastOp' = [op |-> "checkForUpdates", client |-> c,
                      branch |-> IF reloads THEN "reload" ELSE "none",
                      renders |-> IF reloads THEN 1 ELSE 0]
        /\ UNCHANGED << now, phase, localStorage, syncState, jsonbinBinId,
                        polling, pushTimers, call, bins, lastMutationAt,
                        mutations, failures, isLoggedIn, monitor, page >>

NextReload ==
    \/ NextSession
    \/ checkForUpdates(RotClient)

SpecReload == InitSession /\ [][NextReload]_vars

\* ------------------------------------------------------------------------
\* The page load of one session
\* ------------------------------------------------------------------------
\* The application start-up at the end of app.js: initializeApp is
\* registered for DOMContentLoaded; while the document is loading it is
\* registered once more (the same listener), otherwise it is called.
ScriptEvaluates(c) ==
    /\ phase[c] = "closed"
    /\ ~page[c].evaluated
    /\ IF page[c].readyState = "loading"
           THEN /\ page' = [page EXCEPT ![c] = Evaluated(@)]
                /\ lastOp' = Other(c)
                /\ UNCHANGED << now, phase, currentAssignments, localStorage,
                                syncState, jsonbinBinId, rendered, polling,
                                pushTimers, call, bins, lastMutationAt,
                                mutations, failures, isLoggedIn, monitor >>
           ELSE /\ initializeApp(c)
                /\ page' = [page EXCEPT ![c] = Initialized(Evaluated(@))]

\* The document has been parsed: the DOMContentLoaded event runs the
\* listener registered for it.
DOMContentLoaded(c) ==
    /\ page[c].evaluated
    /\ ~page[c].contentLoaded
    /\ page[c].listeners = 1
    /\ initializeApp(c)
    /\ page' = [page EXCEPT ![c] =
                    Initialized([@ EXCEPT !.contentLoaded = TRUE])]

\* The states of the document in which the script can be evaluated.
ReadyStates == {"loading", "interactive", "complete"}

InitStartup ==
    /\ now = StartTime
    /\ phase = [c \in Clients |-> "closed"]
    /\ currentAssignments = [c \in Clients |-> << >>]
    /\ rendered = [c \in Clients |-> << >>]
    /\ \E stored \in {FreshStorage, PriorStorage} :
         localStorage = [c \in Clients |->
                            IF c = RotClient THEN stored ELSE FreshStorage]
    /\ syncState = [c \in Clients |->
                       [isOnline |-> TRUE, jsonbinConnected |-> FALSE,
                        pendingChanges |-> FALSE, conflictDetected |-> FALSE,
                        retryCount |-> 0]]
    /\ jsonbinBinId = [c \in Clients |-> SharedBin]
    /\ polling = [c \in Clients |-> FALSE]
    /\ pushTimers = [c \in Clients |-> << >>]
    /\ call = [c \in Clients |-> Idle]
    /\ bins \in {(SharedBin :> SeedRecord), (SharedBin :> Absent)}
    /\ lastOp = Other(RotClient)
    /\ lastMutationAt = [c \in Clients |-> 0]
    /\ mutations = 0
    /\ failures = 0
    /\ isLoggedIn = [c \in Clients |-> FALSE]
    /\ monitor = [c \in Clients |-> Stopped]
    /\ \E readyState \in ReadyStates :
         page = [c \in Clients |->
                    Document(IF c = RotClient THEN readyState ELSE "loading")]

NextStartup ==
    \/ ScriptEvaluates(RotClient)
    \/ DOMContentLoaded(RotClient)
    \/ createOrLoadJsonBinResume(RotClient)
    \/ createOrLoadJsonBinCreate(RotClient)
    \/ createNewJsonBinResume(RotClient)
    \/ KeydownRotate(RotClient)

SpecStartup == InitStartup /\ [][NextStartup]_vars

\* ------------------------------------------------------------------------
\* The rotation on its own: one session, any stored assignment state
\* ------------------------------------------------------------------------
Person(k) == "P" \o ToString(k)

RECURSIVE SumTo(_, _)
SumTo(f, n) == IF n = 0 THEN 0 ELSE f[n] + SumTo(f, n - 1)

\* The stored state with count[i] rotating people in task i (i = 1..11),
\* named P1, P2, ... in task order; Grocery led by its permanent member or
\* not, Yard holding yard.
Stored(count, permanent, yard) ==
    [i \in 1..12 |->
        IF i = 12 THEN yard
        ELSE (IF i = 11 /\ permanent THEN <<"Bhagirath Bhai">> ELSE << >>)
             \o [k \in 1..count[i] |-> Person(SumTo(count, i - 1) + k)]]

\* The counts with every slot of the table taken.
FullCount == [i \in 1..11 |-> IF i = 11 THEN 1 ELSE TASK_CAPACITIES[i]]

\* Counts that differ from FullCount in at most MaxDeviations tasks.
DenseCounts ==
    UNION { { [i \in 1..11 |-> IF i \in D THEN f[i] ELSE FullCount[i]] :
                f \in { g \in [D -> 0..(3 + MaxOver)] :
                          \A i \in D : g[i] <= FullCount[i] + MaxOver } } :
            D \in { E \in SUBSET (1..11) : Cardinality(E) <= MaxDeviations } }

\* Counts of at most MaxSparse people in all.
SparseCounts ==
    UNION { { [i \in 1..11 |-> IF i \in D THEN f[i] ELSE 0] :
                f \in { g \in [D -> 1..MaxSparse] :
                          SumTo([i \in 1..11 |-> IF i \in D THEN g[i] ELSE 0], 11)
                              <= MaxSparse } } :
            D \in { E \in SUBSET (1..11) : Cardinality(E) <= MaxSparse } }

RotateInputs ==
    { Stored(count, permanent, yard) :
        count \in DenseCounts \cup SparseCounts,
        permanent \in BOOLEAN,
        yard \in { <<"Volunteer">>, << >> } }
    \cup {DEFAULT_ASSIGNMENTS}

\* A running session that lost its connection (its saves schedule no push)
\* and whose localStorage held the state a.
RunningWith(a) ==
    /\ now = StartTime
    /\ currentAssignments =
           [c \in Clients |-> IF c = RotClient THEN a ELSE DEFAULT_ASSIGNMENTS]
    /\ rendered = [c \in Clients |-> renderTable(currentAssignments[c])]
    /\ localStorage =
           [c \in Clients |->
               [sevaAppData |->
                   IF c = RotClient
                       THEN [assignments |-> a,
                             timestamp |-> getCurrentTimestamp(0)]
                       ELSE NoItem,
                sevaAppLastUpdated |->
                   IF c = RotClient THEN getCurrentTimestamp(0) ELSE NoItem,
                jsonbinBinId |-> NoItem]]
    /\ phase = [c \in Clients |-> IF c = RotClient THEN "running" ELSE "closed"]
    /\ syncState = [c \in Clients |->
                       [isOnline |-> TRUE, jsonbinConnected |-> FALSE,
                        pendingChanges |-> FALSE, conflictDetected |-> FALSE,
                        retryCount |-> 0]]
    /\ jsonbinBinId = [c \in Clients |-> SharedBin]
    /\ polling = [c \in Clients |-> (c = RotClient)]
    /\ pushTimers = [c \in Clients |-> << >>]
    /\ call = [c \in Clients |-> Idle]
    /\ bins = (SharedBin :> Absent)
    /\ lastOp = Other(RotClient)
    /\ lastMutationAt = [c \in Clients |-> 0]
    /\ mutations = 0
    /\ failures = 0
    /\ isLoggedIn = [c \in Clients |-> (c = RotClient)]
    /\ monitor = [c \in Clients |->
                     IF c = RotClient THEN Started(StartTime) ELSE Stopped]
    /\ page = [c \in Clients |->
                  IF c = RotClient THEN LoadedDocument
                                   ELSE Document("loading")]

InitRotate == \E a \in RotateInputs : RunningWith(a)

NextRotate == rotatePeople(RotClient) /\ UNCHANGED mutations

SpecRotate == InitRotate /\ [][NextRotate]_vars

\* ------------------------------------------------------------------------
\* The sync monitoring of one session: startSyncMonitoring
\* ------------------------------------------------------------------------
\* Firebase is disabled and not loaded, so syncState.firebaseConnected is
\* false and every run of the interval goes to attemptReconnection.  The
\* first run is due SYNC_INTERVAL after the page opened, which is later
\* than the sessions above are followed: this part has its own clock.
attemptReconnectionMutant(c) ==
    IF syncState[c].retryCount <= MAX_RETRIES
        THEN /\ syncState' = [syncState EXCEPT ![c].retryCount = @ + 1]
             /\ monitor' = [monitor EXCEPT
                                ![c].nextTick = @ + SYNC_INTERVAL,
                                ![c].resets = @ \cup {now + RETRY_RESET_DELAY}]
        ELSE /\ monitor' = [monitor EXCEPT ![c].nextTick = @ + SYNC_INTERVAL]
             /\ UNCHANGED syncState

\* attemptReconnection, called by the interval: below the cap it counts
\* the attempt and sets the timeout that resets the counter.
attemptReconnection(c) ==
    IF syncState[c].retryCount < MAX_RETRIES
        THEN /\ syncState' = [syncState EXCEPT ![c].retryCount = @ + 1]
             /\ monitor' = [monitor EXCEPT
                                ![c].nextTick = @ + SYNC_INTERVAL,
                                ![c].resets = @ \cup {now + RETRY_RESET_DELAY}]
        ELSE /\ monitor' = [monitor EXCEPT ![c].nextTick = @ + SYNC_INTERVAL]
             /\ UNCHANGED syncState

\* A run of the setInterval callback of startSyncMonitoring.
MonitorInterval(c) ==
    /\ monitor[c].started
    /\ monitor[c].nextTick <= now
    /\ attemptReconnection(c)
    /\ lastOp' = [op |-> "attemptReconnection", client |-> c,
                  branch |-> IF syncState'[c] # syncState[c]
                                 THEN "attempt" ELSE "none",
                  before |-> syncState[c].retryCount, renders |-> 0]
    /\ UNCHANGED << now, phase, currentAssignments, localStorage,
                    jsonbinBinId, rendered, polling, pushTimers, call, bins,
                    lastMutationAt, mutations, failures, isLoggedIn,
                    page >>

\* A setTimeout of attemptReconnection fires and resets the counter.
RetryReset(c) ==
    /\ \E due \in monitor[c].resets :
         /\ due <= now
         /\ monitor' = [monitor EXCEPT ![c].resets = @ \ {due}]
    /\ syncState' = [syncState EXCEPT ![c].retryCount = 0]
    /\ lastOp' = [op |-> "retryReset", client |-> c, branch |-> "none",
                  renders |-> 0]
    /\ UNCHANGED << now, phase, currentAssignments, localStorage,
                    jsonbinBinId, rendered, polling, pushTimers, call, bins,
                    lastMutationAt, mutations, failures, isLoggedIn,
                    page >>

\* The due times of the monitoring timers that are set.
MonitorDue ==
    UNION { {monitor[c].nextTick} \cup monitor[c].resets :
              c \in {d \in Clients : monitor[d].started} }

\* Time passes until the next of them is due.
MonitorAdvance ==
    /\ MonitorDue # {}
    /\ \A due \in MonitorDue : due > now
    /\ \E next \in MonitorDue :
         /\ \A due \in MonitorDue : next <= due
         /\ next <= MaxMonitorNow
         /\ now' = next
    /\ UNCHANGED << phase, currentAssignments, localStorage, syncState,
                    jsonbinBinId, rendered, polling, pushTimers, call, bins,
                    lastOp, lastMutationAt, mutations, failures, isLoggedIn,
                    monitor, page >>

InitMonitor == RunningWith(DEFAULT_ASSIGNMENTS)

NextMonitor ==
    \/ MonitorAdvance
    \/ MonitorInterval(RotClient)
    \/ RetryReset(RotClient)
    \/ handleOnlineStatusChange(RotClient)

SpecMonitor == InitMonitor /\ [][NextMonitor]_vars

\* ------------------------------------------------------------------------
\* The rotation of a stored table that is not one list per task
\* ------------------------------------------------------------------------
\* loadAssignments and handleRemoteUpdate take data.assignments as it is.
\* The tables of an earlier task list (one entry fewer or one more), and
\* tables in which the entry of Grocery or of Yard is null.
WellFormedInputs ==
    { Stored(count, TRUE, <<"Volunteer">>) : count \in SparseCounts \cup {FullCount} }
    \cup {DEFAULT_ASSIGNMENTS}

MalformedInputs ==
    UNION { { SubSeq(a, 1, 11),
              Append(a, <<"Extra Bhai">>),
              [a EXCEPT ![11] = JsonNull],
              [a EXCEPT ![12] = JsonNull] } : a \in WellFormedInputs }

InitMalformed == \E a \in MalformedInputs : RunningWith(a)

SpecMalformed == InitMalformed /\ [][NextRotate]_vars

\* ------------------------------------------------------------------------
\* Repeated rotation of a full table
\* ------------------------------------------------------------------------
\* The tables with every slot taken: the default one, and the same layout
\* with other names, with or without the sentinels in the stored record.
CycleInputs ==
    { Stored(FullCount, permanent, yard) :
        permanent \in BOOLEAN, yard \in { <<"Volunteer">>, << >> } }
    \cup {DEFAULT_ASSIGNMENTS}

InitCycle == \E a \in CycleInputs : RunningWith(a)

\* Ctrl+R or Cmd+R pressed once more; mutations counts the rotations.
CycleRotate ==
    /\ mutations < MaxRotations
    /\ rotatePeople(RotClient)
    /\ mutations' = mutations + 1

NextCycle ==
    \/ CycleRotate
    \/ handleLogin(RotClient)
    \/ handleLogout(RotClient)

SpecCycle == InitCycle /\ [][NextCycle]_vars

\* ------------------------------------------------------------------------
\* Properties of the rotation
\* ------------------------------------------------------------------------
Grocery == 11
Yard == 12

RECURSIVE Concat(_, _)
Concat(groups, n) == IF n = 0 THEN << >> ELSE Concat(groups, n - 1) \o groups[n]

NotPermanent(person) == person # "Bhagirath Bhai"

\* The rotation pool of a 12-entry state as the specification describes
\* it: the normal tasks' occupants in task order, then Grocery's occupants
\* other than the permanent member.
PoolOf(a) == Concat(a, Grocery - 1) \o SelectSeq(a[Grocery], NotPermanent)

\* The slots the redistribution fills from the pool (17).
RotatingSlots == SumTo(TASK_CAPACITIES, Grocery - 1) + 1

Occurrences(s, x) == Cardinality({k \in DOMAIN s : s[k] = x})
Range(s) == {s[k] : k \in DOMAIN s}
SameMultiset(s, t) ==
    /\ Len(s) = Len(t)
    /\ \A x \in Range(s) \cup Range(t) : Occurrences(s, x) = Occurrences(t, x)

Rotating == lastOp.op = "rotatePeople"
After == currentAssignments[lastOp.client]

\* C1: rotatePeople collects the pool in task order (normal tasks' occupants,
\* then Grocery's other than "Bhagirath Bhai"), moves its last element to the
\* front with every other element one position later, and hands out that
\* sequence from its front.
C1_PoolLastToFront ==
    [][\A c \in Clients : rotatePeople(c) =>
          LET pool == PoolOf(currentAssignments[c])
              n == Len(pool)
              rotatedPool ==
                  MoveLastToFront(CollectPeople(currentAssignments[c], 1, << >>))
              handedOut == PoolOf(currentAssignments'[c])
          IN  /\ CollectPeople(currentAssignments[c], 1, << >>) = pool
              /\ Len(rotatedPool) = n
              /\ n > 0 => rotatedPool[1] = pool[n]
              /\ \A k \in 1..(n - 1) : rotatedPool[k + 1] = pool[k]
              /\ handedOut = SubSeq(rotatedPool, 1,
                                    IF n < RotatingSlots THEN n ELSE RotatingSlots)
      ]_vars

\* A rotation has moved the last of several people to the front.
C1_Witness ==
    /\ Rotating
    /\ Len(PoolOf(After)) >= 3
    /\ After[1][1] = Person(Len(PoolOf(After)))
    /\ After[1][2] = Person(1)

\* C2: after rotatePeople, Yard is exactly <<"Volunteer">> and the first
\* occupant of Grocery is "Bhagirath Bhai".
C2_PinnedAfterRotation ==
    Rotating => /\ After[Yard] = <<"Volunteer">>
                /\ Len(After[Grocery]) >= 1
                /\ After[Grocery][1] = "Bhagirath Bhai"

\* A rotation has run and left the two pinned entries in place.
C2_Witness ==
    /\ Rotating
    /\ After[Yard] = <<"Volunteer">>
    /\ After[Grocery] = <<"Bhagirath Bhai", Person(16)>>

\* A valid assignment state of the data model: every task within its
\* capacity, Grocery led by its permanent member, Yard the fixed volunteer.
ValidState(a) ==
    /\ \A i \in 1..12 : Len(a[i]) <= TASK_CAPACITIES[i]
    /\ a[Grocery] # << >> /\ a[Grocery][1] = "Bhagirath Bhai"
    /\ a[Yard] = <<"Volunteer">>

C4_AlwaysAtCapacity ==
    Rotating => \A i \in 1..12 : Len(After[i]) = TASK_CAPACITIES[i]

\* C4 amended: after any run of rotatePeople no task holds more occupants
\* than TASK_CAPACITIES[i], and every task holds exactly TASK_CAPACITIES[i]
\* when the rotation pool had at least as many entries as there are slots.
C4_AtCapacityWhenPoolSuffices ==
    [][\A c \in Clients : rotatePeople(c) =>
          /\ \A i \in 1..12 :
                Len(currentAssignments'[c][i]) <= TASK_CAPACITIES[i]
          /\ Len(PoolOf(currentAssignments[c])) >= RotatingSlots =>
                \A i \in 1..12 :
                    Len(currentAssignments'[c][i]) = TASK_CAPACITIES[i]
      ]_vars

\* A rotation of an over-full state has run and filled every task.
C4_Witness ==
    /\ Rotating
    /\ \A i \in 1..12 : Len(After[i]) = TASK_CAPACITIES[i]
    /\ After[1][1] = Person(RotatingSlots + 1)


\* ------------------------------------------------------------------------
\* Properties of handleRemoteUpdate, polling and pushing (Spec)
\* ------------------------------------------------------------------------
\* The step in which client c hands a fetched record to handleRemoteUpdate.
Receives(c) ==
    /\ call[c].kind \in {"checkForJsonBinUpdates", "createOrLoadJsonBin"}
    /\ call[c].response.status = "ok"
    /\ call'[c] = Idle

\* The same step when the record comes from a poll.
Polls(c) == Receives(c) /\ call[c].kind = "checkForJsonBinUpdates"

Received(c) == call[c].response.record
LocalStamp(c) == localStorage[c][LAST_UPDATED_KEY]
RemoteTime(c) == DateGetTime(Received(c).timestamp)
LocalTime(c) == DateGetTime(LocalStamp(c))

OwnEcho(c) ==
    /\ Received(c).lastModifiedBy = c
    /\ Abs(RemoteTime(c) - LocalTime(c)) < ECHO_TOLERANCE

\* C5: a received record that is newer than the local timestamp (or met by
\* no local timestamp) and is not an echo of the client's own push is
\* adopted wholesale: the current assignments become the remote ones, the
\* local timestamp becomes the remote timestamp, the pending-changes flag
\* is cleared and the table is rendered exactly once.
C5_AdoptsNewerRemote ==
    [][\A c \in Clients :
         (/\ Receives(c)
          /\ LocalStamp(c) = NoItem \/ RemoteTime(c) > LocalTime(c)
          /\ ~OwnEcho(c))
         => /\ currentAssignments'[c] = Received(c).assignments
            /\ localStorage'[c][LAST_UPDATED_KEY] = Received(c).timestamp
            /\ syncState'[c].pendingChanges = FALSE
            /\ lastOp'.op = "handleRemoteUpdate"
            /\ lastOp'.renders = 1]_vars

\* A client has just adopted a record that replaced different assignments.
C5_Witness ==
    /\ lastOp.op = "handleRemoteUpdate"
    /\ lastOp.branch = "adopt"
    /\ lastMutationAt[lastOp.client] > 0
    /\ currentAssignments[lastOp.client] # DEFAULT_ASSIGNMENTS

\* C6: a polled record whose timestamp is less than or equal to the
\* recorded local timestamp changes nothing: current assignments, stored
\* record, local timestamp and pending-changes flag stay, nothing is
\* rendered.
C6_OlderRemoteIsNoOp ==
    [][\A c \in Clients :
         (/\ Polls(c)
          /\ LocalStamp(c) # NoItem
          /\ RemoteTime(c) <= LocalTime(c))
         => /\ currentAssignments'[c] = currentAssignments[c]
            /\ localStorage'[c] = localStorage[c]
            /\ syncState'[c].pendingChanges = syncState[c].pendingChanges
            /\ lastOp'.renders = 0]_vars

\* C7: a received record written by the client itself, with a timestamp
\* less than the tolerance away from the local timestamp, changes neither
\* the current assignments nor the stored record, and nothing is rendered.
C7_SelfEchoSuppressed ==
    [][\A c \in Clients :
         (Receives(c) /\ OwnEcho(c))
         => /\ currentAssignments'[c] = currentAssignments[c]
            /\ localStorage'[c][STORAGE_KEY] = localStorage[c][STORAGE_KEY]
            /\ lastOp'.op = "handleRemoteUpdate"
            /\ lastOp'.renders = 0]_vars

\* A client has just discarded an echo of its own push.
C7_Witness ==
    /\ lastOp.op = "handleRemoteUpdate"
    /\ lastOp.branch = "echo"
    /\ bins[jsonbinBinId[lastOp.client]].lastModifiedBy = lastOp.client

\* Client c has nothing left to do: it runs, no fetch is in flight, no push
\* is scheduled, and a poll of the shared record would adopt nothing.
Settled(c) ==
    /\ phase[c] = "running"
    /\ call[c] = Idle
    /\ pushTimers[c] = << >>
    /\ jsonbinBinId[c] = SharedBin
    /\ Exists(SharedBin)
    /\ RemoteBranch(c, bins[SharedBin]) # "adopt"

\* C8: with a transport that never failed, once every client sharing the
\* remote record has settled (only polls remain, and they change nothing),
\* every client's current assignments equal the remote record's.
C8_SettledClientsAgree ==
    (failures = 0 /\ \A c \in Clients : Settled(c))
    => \A c \in Clients :
           currentAssignments[c] = bins[SharedBin].assignments

\* C9: after a local rotation or reset, no poll response replaces the
\* current assignments with a record written before that mutation, and no
\* push completion changes them.
C9_NoDowngrade ==
    [][\A c \in Clients :
         /\ (/\ Polls(c)
             /\ lastMutationAt[c] > 0
             /\ Received(c).timestamp.instant < lastMutationAt[c])
            => currentAssignments'[c] = currentAssignments[c]
         /\ (call[c].kind = "pushToJsonBin" /\ call'[c] # call[c])
            => currentAssignments'[c] = currentAssignments[c]]_vars

\* The step in which the failure of client c's push is handled.
PushFails(c) ==
    /\ call[c].kind = "pushToJsonBin"
    /\ Failed(call[c].response)
    /\ call'[c] = Idle

Remote(c) == bins[jsonbinBinId[c]]

\* A write of client c's state is scheduled or in flight.
PushUnderWay(c) ==
    \/ pushTimers[c] # << >>
    \/ call[c].kind \in {"pushToJsonBin", "createNewJsonBin"}

\* C11: right after an online event, a session with a pending local
\* mutation that the remote record does not hold has a push of it scheduled
\* or in flight (nothing but a user mutation schedules one later).
C11_OnlineEventPushesPending ==
    \A c \in Clients :
        (/\ lastOp.op = "handleOnlineStatusChange"
         /\ lastOp.branch = "online"
         /\ lastOp.client = c
         /\ phase[c] = "running"
         /\ syncState[c].pendingChanges
         /\ lastMutationAt[c] > 0
         /\ Exists(jsonbinBinId[c])
         /\ Remote(c).assignments # currentAssignments[c])
        => PushUnderWay(c)


\* C12: jsonbinConnected becomes true only in a step that handles an OK
\* answer to a read or a write of the remote record.
C12_ConnectedOnlyAfterSuccess ==
    [][\A c \in Clients :
         (~syncState[c].jsonbinConnected /\ syncState'[c].jsonbinConnected)
         => /\ call[c] # Idle
            /\ call[c].response.status = "ok"]_vars


\* The step in which a failed poll or push of client c is handled.
TransportFails(c) ==
    /\ call[c].kind \in {"checkForJsonBinUpdates", "pushToJsonBin"}
    /\ Failed(call[c].response)
    /\ call'[c] = Idle

\* The browser's offline event at client c.
GoesOffline(c) == syncState[c].isOnline /\ ~syncState'[c].isOnline

\* C13: a connected client is disconnected by every transport failure
\* during a poll or a push, and by the offline event.
C13_FailureOrOfflineDisconnects ==
    [][\A c \in Clients :
         (syncState[c].jsonbinConnected /\ (TransportFails(c) \/ GoesOffline(c)))
         => ~syncState'[c].jsonbinConnected]_vars


\* The step in which a failed fetch of client c (initial read, poll, push
\* or creation) is handled.
HandlesFailure(c) ==
    /\ call[c] # Idle
    /\ Failed(call[c].response)
    /\ call'[c] # call[c]

PollFindsNoBin(c) ==
    /\ call[c].kind = "checkForJsonBinUpdates"
    /\ call[c].response.status = "notfound"
    /\ call'[c].kind = "createNewJsonBin"

\* C15: a poll that finds the record absent creates a record holding the
\* client's current assignments, the current time and its viewerId; neither
\* that step nor the handling of the answer changes the current
\* assignments, the stored record, the stored timestamp or the pending flag.
C15_AbsentRecordIsCreated ==
    [][\A c \in Clients :
         /\ PollFindsNoBin(c)
            => /\ call'[c].response.status = "ok"
                  => bins'[call'[c].response.id] =
                         [assignments |-> currentAssignments[c],
                          timestamp |-> toISOString(now),
                          lastModifiedBy |-> c]
               /\ currentAssignments'[c] = currentAssignments[c]
               /\ localStorage'[c] = localStorage[c]
               /\ syncState'[c] = syncState[c]
         /\ (call[c].kind = "createNewJsonBin" /\ call'[c] = Idle)
            => /\ currentAssignments'[c] = currentAssignments[c]
               /\ localStorage'[c][STORAGE_KEY] = localStorage[c][STORAGE_KEY]
               /\ localStorage'[c][LAST_UPDATED_KEY] =
                      localStorage[c][LAST_UPDATED_KEY]
               /\ syncState'[c].pendingChanges = syncState[c].pendingChanges]_vars

\* A poll found no bin and the record it created is in the store.
C15_Witness ==
    /\ call[RotClient].kind = "createNewJsonBin"
    /\ call[RotClient].caller = "checkForJsonBinUpdates"
    /\ call[RotClient].response.status = "ok"
    /\ bins[call[RotClient].response.id].lastModifiedBy = RotClient
    /\ bins[call[RotClient].response.id].assignments
           = currentAssignments[RotClient]


\* handleRemoteUpdate(remoteData) would change nothing of client c's state
\* and adopt nothing.
ChangesNothing(c, remoteData) ==
    /\ RemoteBranch(c, remoteData) # "adopt"
    /\ handleRemoteUpdate(c, remoteData).currentAssignments
           = currentAssignments[c]
    /\ handleRemoteUpdate(c, remoteData).localStorage = localStorage[c]
    /\ handleRemoteUpdate(c, remoteData).pendingChanges
           = syncState[c].pendingChanges
    /\ handleRemoteUpdate(c, remoteData).rendered = rendered[c]
    /\ handleRemoteUpdate(c, remoteData).renders = 0

\* C16: in the state handleRemoteUpdate leaves, applying it again to the
\* same record changes nothing and adopts nothing.
C16_PollIsIdempotent ==
    [][\A c \in Clients :
         Receives(c)
         => \A remoteData \in {Received(c)} : ChangesNothing(c, remoteData)']_vars

\* A record has just been adopted, so that the second application meets
\* the state the first one wrote.
C16_Witness ==
    /\ lastOp.op = "handleRemoteUpdate"
    /\ lastOp.branch = "adopt"
    /\ lastOp.client = RotClient
    /\ localStorage[RotClient][STORAGE_KEY] = Remote(RotClient)
    /\ ChangesNothing(RotClient, Remote(RotClient))


\* The step in which the user of client c confirms a reset.
Resets(c) ==
    /\ mutations' # mutations
    /\ lastOp'.op = "resetToDefault"
    /\ lastOp'.client = c

\* C17: a confirmed reset leaves exactly DEFAULT_ASSIGNMENTS as the current
\* assignments (rendered and stored as well), whatever rotations, resets or
\* adoptions came before; a reset of a table that a reset just produced
\* therefore leaves the same table.
C17_ResetRestoresDefault ==
    [][\A c \in Clients :
         Resets(c)
         => /\ currentAssignments'[c] = DEFAULT_ASSIGNMENTS
            /\ rendered'[c] = DEFAULT_ASSIGNMENTS
            /\ localStorage'[c][STORAGE_KEY].assignments = DEFAULT_ASSIGNMENTS
            /\ lastOp.op = "resetToDefault"
               => currentAssignments'[c] = currentAssignments[c]]_vars

\* A reset has just replaced a table that an earlier mutation or a stored
\* or adopted record had made different from the default.
C17_Witness ==
    /\ lastOp.op = "resetToDefault"
    /\ mutations = MaxMutations
    /\ currentAssignments[RotClient] = DEFAULT_ASSIGNMENTS
    /\ localStorage[RotClient][STORAGE_KEY].assignments = DEFAULT_ASSIGNMENTS
    /\ Exists(jsonbinBinId[RotClient])
    /\ Remote(RotClient).assignments # DEFAULT_ASSIGNMENTS


\* One occupant list per task: as many entries as SEVA_TASKS, each a list.
OnePerTask(a) ==
    /\ DOMAIN a = DOMAIN SEVA_TASKS
    /\ Len(a) = 12
    /\ \A i \in DOMAIN a : DOMAIN a[i] = 1..Len(a[i])

SentinelsInPlace(a) ==
    /\ Len(a[Grocery]) >= 1
    /\ a[Grocery][1] = "Bhagirath Bhai"
    /\ a[Yard] = <<"Volunteer">>
    /\ \A i \in DOMAIN a : \A k \in DOMAIN a[i] :
         /\ a[i][k] = "Bhagirath Bhai" => (i = Grocery /\ k = 1)
         /\ a[i][k] = "Volunteer" => i = Yard

\* C19 (Spec): in the system of sessions that start from the default table
\* and exchange state by rotate, reset, push and poll, every initialised
\* client and every remote record has the sentinels in place.
C19_SentinelsStayInPlace ==
    /\ \A c \in Clients :
         phase[c] # "closed" => SentinelsInPlace(currentAssignments[c])
    /\ \A b \in DOMAIN bins :
         Exists(b) => SentinelsInPlace(bins[b].assignments)

\* The viewer shows the table the admin pushed after two mutations.
C19_Witness ==
    /\ mutations = MaxMutations
    /\ \A c \in Clients : phase[c] = "running"
    /\ Exists(SharedBin)
    /\ bins[SharedBin].lastModifiedBy = "viewer_1"
    /\ currentAssignments["viewer_2"] = bins[SharedBin].assignments
    /\ SentinelsInPlace(currentAssignments["viewer_2"])


CombinedUnit == "Malav Bhai & Param Bhai"

\* Everybody named in the table a, in task order.
Everybody(a) == Concat(a, Len(a))

\* The table a descends from the default table: it names its people.
FromDefault(a) ==
    Range(PoolOf(a)) \cap Range(PoolOf(DEFAULT_ASSIGNMENTS)) # {}

\* C20 (SpecRotate): in every table reached from the default by rotations
\* the combined unit is named exactly once, as one occupant of a task that
\* holds no more occupants than its capacity, and neither of its two names
\* stands alone.
C20_CombinedUnitIndivisible ==
    LET a == currentAssignments[RotClient]
    IN  FromDefault(a)
        => /\ Occurrences(Everybody(a), CombinedUnit) = 1
           /\ "Malav Bhai" \notin Range(Everybody(a))
           /\ "Param Bhai" \notin Range(Everybody(a))
           /\ \A i \in DOMAIN a :
                CombinedUnit \in Range(a[i]) => Len(a[i]) <= TASK_CAPACITIES[i]

\* A rotation has carried the combined unit into Grocery's free slot.
C20_Witness ==
    /\ Rotating
    /\ After[Grocery] = <<"Bhagirath Bhai", CombinedUnit>>
    /\ Occurrences(Everybody(After), CombinedUnit) = 1


\* ------------------------------------------------------------------------
\* Admin gating (SpecSession)
\* ------------------------------------------------------------------------
\* A step in which a user input (button or keyboard) of client c ran
\* rotatePeople or a confirmed resetToDefault.
UserMutates(c) == mutations' # mutations /\ lastOp'.client = c

\* C21: while isLoggedIn is false, no user input event (keyboard shortcuts
\* included) changes the current assignments, saves, or schedules a push.
C21_MutationsNeedLogin ==
    [][\A c \in Clients :
         (~isLoggedIn[c] /\ UserMutates(c))
         => /\ currentAssignments'[c] = currentAssignments[c]
            /\ localStorage'[c] = localStorage[c]
            /\ syncState'[c] = syncState[c]
            /\ pushTimers'[c] = pushTimers[c]]_vars


\* ------------------------------------------------------------------------
\* Rendering (Spec)
\* ------------------------------------------------------------------------
\* C22: between handlers the rendered table shows exactly the current
\* assignments of every initialised client, and the handler that changed
\* them last (rotation, reset or adoption of a remote record) rendered.
C22_RenderedShowsCurrent ==
    /\ \A c \in Clients :
         phase[c] # "closed" => rendered[c] = currentAssignments[c]
    /\ (lastOp.op \in {"rotatePeople", "resetToDefault"}
         \/ (lastOp.op = "handleRemoteUpdate" /\ lastOp.branch = "adopt"))
        => lastOp.renders = 1

\* The viewer has adopted and rendered the table the admin pushed.
C22_Witness ==
    /\ lastOp.op = "handleRemoteUpdate"
    /\ lastOp.branch = "adopt"
    /\ lastOp.client = "viewer_2"
    /\ Exists(SharedBin)
    /\ bins[SharedBin].lastModifiedBy = "viewer_1"
    /\ rendered["viewer_2"] = bins[SharedBin].assignments
    /\ rendered["viewer_2"] # Rotated(DEFAULT_ASSIGNMENTS)


\* ------------------------------------------------------------------------
\* Rotation of malformed tables (SpecMalformed)
\* ------------------------------------------------------------------------
\* The table a is not one list of occupants per task.
Malformed(a) ==
    \/ Len(a) # Len(SEVA_TASKS)
    \/ \E i \in DOMAIN a : ~IsArray(a[i])

\* C23: rotatePeople run on a table whose length differs from the task
\* list, or that holds an entry that is not a list, fails with an error.
C23_MalformedInputRejected ==
    [][\A c \in Clients :
         (rotatePeople(c) /\ Malformed(currentAssignments[c]))
         => lastOp'.branch = "error"]_vars


\* C25: a run of rotatePeople that fails with an error leaves the current
\* assignments, the localStorage record, the sync flags and the scheduled
\* pushes as they were, and renders nothing.
C25_FailedRotationChangesNothing ==
    [][\A c \in Clients :
         (rotatePeople(c) /\ lastOp'.branch = "error")
         => /\ currentAssignments'[c] = currentAssignments[c]
            /\ localStorage'[c] = localStorage[c]
            /\ syncState'[c] = syncState[c]
            /\ pushTimers'[c] = pushTimers[c]
            /\ rendered'[c] = rendered[c]]_vars

\* A rotation has failed on a table whose Grocery entry is null, and the
\* stored record still is the table that was loaded.
C25_Witness ==
    /\ lastOp.op = "rotatePeople"
    /\ lastOp.branch = "error"
    /\ ~IsArray(currentAssignments[RotClient][Grocery])
    /\ ~syncState[RotClient].pendingChanges
    /\ localStorage[RotClient][LAST_UPDATED_KEY] = getCurrentTimestamp(0)


\* ------------------------------------------------------------------------
\* The redistribution walk (SpecRotate)
\* ------------------------------------------------------------------------
\* The pool slots of task i, and of the tasks before it.
PoolSlots(i) ==
    IF i = Grocery THEN 1 ELSE IF i = Yard THEN 0 ELSE TASK_CAPACITIES[i]

RECURSIVE SlotsBefore(_)
SlotsBefore(i) == IF i = 1 THEN 0 ELSE SlotsBefore(i - 1) + PoolSlots(i - 1)

Min(x, y) == IF x < y THEN x ELSE y

\* The pool entries task i of the table a holds.
PoolEntries(a, i) ==
    IF i = Grocery THEN SelectSeq(a[i], NotPermanent)
    ELSE IF i = Yard THEN << >>
    ELSE a[i]

\* C24: rotatePeople hands out the rotated pool in task order with one
\* cursor: a normal task receives the next min(capacity, remaining)
\* entries, Grocery "Bhagirath Bhai" and at most one entry, Yard none; the
\* walk never wraps around, so a task left below capacity is followed only
\* by tasks without pool entries, and the entries beyond the 17 slots are
\* dropped while the rotation still succeeds.
C24_SingleCursorWalk ==
    [][\A c \in Clients : rotatePeople(c) =>
          LET pool == MoveLastToFront(PoolOf(currentAssignments[c]))
              n == Len(pool)
              after == currentAssignments'[c]
          IN  /\ \A i \in 1..12 :
                    PoolEntries(after, i) =
                        SubSeq(pool, Min(n, SlotsBefore(i)) + 1,
                               Min(n, SlotsBefore(i) + PoolSlots(i)))
              /\ \A i \in 1..10 : after[i] = PoolEntries(after, i)
              /\ after[Grocery] =
                     <<"Bhagirath Bhai">> \o PoolEntries(after, Grocery)
              /\ after[Yard] = <<"Volunteer">>
              /\ \A i \in 1..11 : \A j \in (i + 1)..11 :
                    Len(PoolEntries(after, i)) < PoolSlots(i)
                        => PoolEntries(after, j) = << >>
              /\ Len(PoolOf(after)) = Min(n, RotatingSlots)
              /\ lastOp'.branch = "done"
      ]_vars

\* A rotation has run out of pool entries in the middle of the first task
\* and left every later task without one.
C24_Witness ==
    /\ Rotating
    /\ After[1] = <<Person(2), Person(1)>>
    /\ \A i \in 2..10 : After[i] = << >>
    /\ After[Grocery] = <<"Bhagirath Bhai">>
    /\ After[Yard] = <<"Volunteer">>


\* ------------------------------------------------------------------------
\* Pending changes, echoes and push answers (SpecSession)
\* ------------------------------------------------------------------------
\* C26: a poll that ends in the echo-discard branch changes no state of
\* the client: the current assignments, the localStorage record and
\* timestamp, the rendered table and the pending-changes flag all keep
\* the values they had before the poll.
C26_EchoKeepsPendingFlag ==
    [][\A c \in Clients :
         (Polls(c) /\ OwnEcho(c))
         => /\ currentAssignments'[c] = currentAssignments[c]
            /\ localStorage'[c] = localStorage[c]
            /\ rendered'[c] = rendered[c]
            /\ syncState'[c].pendingChanges = syncState[c].pendingChanges]_vars


\* The step in which the OK answer to client c's push is handled.
PushSucceeds(c) ==
    /\ call[c].kind = "pushToJsonBin"
    /\ call[c].response.status = "ok"
    /\ call'[c] = Idle

\* Since that push was sent, a user mutation of client c has been saved:
\* the record the push wrote is not older than the mutation and does not
\* hold the current assignments.
MutatedSincePush(c) ==
    /\ Exists(jsonbinBinId[c])
    /\ Remote(c).lastModifiedBy = c
    /\ lastMutationAt[c] >= Remote(c).timestamp.instant
    /\ Remote(c).assignments # currentAssignments[c]
    /\ syncState[c].pendingChanges

\* C27: when the answer to a push arrives after a newer local mutation has
\* been saved, the answer does not clear the pending-changes flag.
C27_StalePushKeepsPending ==
    [][\A c \in Clients :
         (PushSucceeds(c) /\ MutatedSincePush(c))
         => syncState'[c].pendingChanges]_vars


\* The step in which client c sends a push.
SendsPush(c) == call[c] = Idle /\ call'[c].kind = "pushToJsonBin"

\* The pushes waiting in client c's timer queue are due in the order in
\* which the mutations scheduled them.
InOrder(timers) ==
    \A j \in DOMAIN timers : \A k \in DOMAIN timers :
        j < k => timers[j] <= timers[k]

\* C28: a client sends its pushes in the order of the mutations that
\* scheduled them (the oldest waiting push first, none overtaken); a push
\* is sent no earlier than its mutation, the record it writes holds the
\* client's current assignments at that moment and the time of sending,
\* and that time is not before the timestamp of the client's previous
\* record.
C28_PushesInMutationOrder ==
    [][\A c \in Clients :
         /\ InOrder(pushTimers[c])
         /\ SendsPush(c)
            => /\ pushTimers'[c] = Tail(pushTimers[c])
               /\ Head(pushTimers[c]) - PUSH_DELAY <= now
               /\ Head(pushTimers[c]) - PUSH_DELAY <= lastMutationAt[c]
               /\ call'[c].response.status = "ok"
                  => /\ bins'[jsonbinBinId[c]] =
                            [assignments |-> currentAssignments[c],
                             timestamp |-> toISOString(now),
                             lastModifiedBy |-> c]
                     /\ Remote(c).lastModifiedBy = c
                        => Remote(c).timestamp.instant <= now]_vars

\* The first of two waiting pushes has been sent: it wrote the table both
\* mutations left, and the second push still waits.
C28_Witness ==
    /\ mutations = MaxMutations
    /\ call[RotClient].kind = "pushToJsonBin"
    /\ call[RotClient].response.status = "ok"
    /\ Len(pushTimers[RotClient]) = 1
    /\ Remote(RotClient) =
           [assignments |-> currentAssignments[RotClient],
            timestamp |-> toISOString(now),
            lastModifiedBy |-> RotClient]


\* ------------------------------------------------------------------------
\* Conflicts (Spec)
\* ------------------------------------------------------------------------
\* C29: between handlers syncState.conflictDetected is false in every
\* client, and no handler that ran was handleSyncConflict or the
\* conflict-resolution dialog: a newer remote record that meets recent
\* pending changes is adopted or kept without asking the user.
C29_ConflictNeverSurfaces ==
    /\ \A c \in Clients : ~syncState[c].conflictDetected
    /\ lastOp.op \notin {"handleSyncConflict", "showConflictResolutionDialog"}
    /\ (lastOp.op = "handleRemoteUpdate" /\ lastOp.conflict)
        => lastOp.branch = "adopt"

\* A newer remote record has met pending changes less than two seconds
\* old, and the client adopted it with the conflict flag still false.
C29_Witness ==
    /\ lastOp.op = "handleRemoteUpdate"
    /\ lastOp.conflict
    /\ lastMutationAt[lastOp.client] > 0
    /\ ~syncState[lastOp.client].conflictDetected
    /\ ~syncState[lastOp.client].pendingChanges


\* ------------------------------------------------------------------------
\* The reconnection counter (SpecMonitor)
\* ------------------------------------------------------------------------
\* C30: syncState.retryCount stays between 0 and SYNC_CONFIG.maxRetries,
\* and a run of attemptReconnection that met the counter at maxRetries
\* made no attempt: it left the counter at maxRetries.
C30_RetryCountCapped ==
    /\ \A c \in Clients :
         /\ syncState[c].retryCount >= 0
         /\ syncState[c].retryCount <= MAX_RETRIES
    /\ (lastOp.op = "attemptReconnection" /\ lastOp.before = MAX_RETRIES)
        => /\ lastOp.branch = "none"
           /\ syncState[lastOp.client].retryCount = MAX_RETRIES

\* The interval has run at the cap and attempted nothing.
C30_Witness ==
    /\ lastOp.op = "attemptReconnection"
    /\ lastOp.before = MAX_RETRIES
    /\ lastOp.branch = "none"
    /\ syncState[RotClient].retryCount = MAX_RETRIES
    /\ Cardinality(monitor[RotClient].resets) = MAX_RETRIES

\* ------------------------------------------------------------------------
\* Declined confirmations (SpecSession)
\* ------------------------------------------------------------------------
\* The step in which client c's reset or clear-storage dialog is declined.
Declines(c) ==
    /\ lastOp'.client = c
    /\ lastOp'.op = "confirm"
    /\ lastOp'.branch = "declined"
    /\ \E handler \in ConfirmingHandlers : Declined(c, handler)

\* C31: when the user declines the confirmation dialog of resetToDefault
\* or of clearStorageAndReset, the current assignments, the stored record
\* and timestamp and the pending-changes flag keep their values, nothing
\* is rendered and no push is scheduled.
C31_DeclinedChangesNothing ==
    [][\A c \in Clients :
         Declines(c)
         => /\ currentAssignments'[c] = currentAssignments[c]
            /\ localStorage'[c] = localStorage[c]
            /\ syncState'[c] = syncState[c]
            /\ pushTimers'[c] = pushTimers[c]
            /\ rendered'[c] = rendered[c]
            /\ mutations' = mutations]_vars

\* The clear-storage dialog has been declined while a rotation was saved
\* and its push was still waiting.
C31_Witness ==
    /\ lastOp.op = "confirm"
    /\ lastOp.branch = "declined"
    /\ lastOp.handler = "clearStorageAndReset"
    /\ syncState[RotClient].pendingChanges
    /\ pushTimers[RotClient] # << >>
    /\ currentAssignments[RotClient] # DEFAULT_ASSIGNMENTS
    /\ localStorage[RotClient][STORAGE_KEY].assignments
           = currentAssignments[RotClient]

\* ------------------------------------------------------------------------
\* Echoes of the client's own push (SpecSession)
\* ------------------------------------------------------------------------
\* The record client c polled is its own latest push: c wrote it when the
\* delay after its last mutation had passed, it holds c's current
\* assignments, and no further push of c is waiting.
ReadsOwnLatestPush(c) ==
    /\ Polls(c)
    /\ Received(c).lastModifiedBy = c
    /\ lastMutationAt[c] > 0
    /\ Received(c).timestamp.instant >= lastMutationAt[c] + PUSH_DELAY
    /\ Received(c).assignments = currentAssignments[c]
    /\ pushTimers[c] = << >>
    /\ LocalStamp(c) = getCurrentTimestamp(lastMutationAt[c])

\* C32: a poll that reads back the client's own latest push finds its
\* timestamp less than the tolerance away from the local timestamp of the
\* mutation and takes the discard branch, never the adopt branch.
C32_OwnPushIsEcho ==
    [][\A c \in Clients :
         ReadsOwnLatestPush(c)
         => /\ Abs(RemoteTime(c) - LocalTime(c)) < ECHO_TOLERANCE
            /\ lastOp'.op = "handleRemoteUpdate"
            /\ lastOp'.branch = "echo"]_vars

\* ------------------------------------------------------------------------
\* The rotation cycle (SpecCycle)
\* ------------------------------------------------------------------------
\* The slot of the pool from which k rotations carry an entry to slot.
CameFrom(slot, k) ==
    ((slot - 1 + (RotatingSlots - (k % RotatingSlots))) % RotatingSlots) + 1

\* C33: counted from the default assignments, the table is the default one
\* again after 17 rotations and after no smaller positive number of them,
\* and every rotation moves every pool member on by one slot around the
\* 17 slots: the member in a slot after k rotations is the one that stood
\* k slots before it, so over 17 rotations each member stands in each slot
\* exactly once.
C33_RotationCycle ==
    LET a == currentAssignments[RotClient]
    IN  FromDefault(a)
        => /\ Len(PoolOf(DEFAULT_ASSIGNMENTS)) = RotatingSlots
           /\ Len(PoolOf(a)) = RotatingSlots
           /\ \A slot \in 1..RotatingSlots :
                 PoolOf(a)[slot] =
                     PoolOf(DEFAULT_ASSIGNMENTS)[CameFrom(slot, mutations)]
           /\ \A slot \in 1..RotatingSlots : \A k \in 1..(RotatingSlots - 1) :
                 CameFrom(slot, k) # slot
           /\ mutations = RotatingSlots => a = DEFAULT_ASSIGNMENTS
           /\ (mutations > 0 /\ mutations < RotatingSlots)
                 => a # DEFAULT_ASSIGNMENTS
           /\ \A i \in 1..10 : Len(a[i]) = TASK_CAPACITIES[i]

\* The seventeenth rotation has brought the default table back.
C33_Witness ==
    /\ lastOp.op = "rotatePeople"
    /\ lastOp.branch = "done"
    /\ mutations = RotatingSlots
    /\ currentAssignments[RotClient] = DEFAULT_ASSIGNMENTS
    /\ localStorage[RotClient][STORAGE_KEY].assignments = DEFAULT_ASSIGNMENTS

\* ------------------------------------------------------------------------
\* Switching to a newly created record (SpecSession)
\* ------------------------------------------------------------------------
\* The step in which client c takes the id of a record it created.
SwitchesRecord(c) == jsonbinBinId'[c] # jsonbinBinId[c]

\* C34: a client leaves the record id it used for a newly created one
\* only when that record is absent (its read or write was answered 404);
\* a failed read of a record that exists never makes it switch.
C34_SwitchOnlyWhenAbsent ==
    [][\A c \in Clients :
         SwitchesRecord(c) => ~Exists(jsonbinBinId[c])]_vars

\* ------------------------------------------------------------------------
\* The stored record and the periodic reload (SpecReload)
\* ------------------------------------------------------------------------
\* The record in client c's localStorage, if any, holds c's current
\* assignments.
StoredIsCurrent(c) ==
    localStorage[c][STORAGE_KEY] # NoItem
    => localStorage[c][STORAGE_KEY].assignments = currentAssignments[c]

\* C35: between event handlers the assignments of the locally stored
\* record equal the current assignments of every initialised client, and
\* a run of checkForUpdates leaves the current assignments as they were.
C35_StoredEqualsCurrent ==
    [][\A c \in Clients :
         /\ phase[c] # "closed" => StoredIsCurrent(c)
         /\ phase'[c] # "closed" => StoredIsCurrent(c)'
         /\ checkForUpdates(c)
            => currentAssignments'[c] = currentAssignments[c]]_vars

\* checkForUpdates has reloaded the record of a rotation that was saved in
\* an earlier second, and the current assignments are what they were.
C35_Witness ==
    /\ lastOp.op = "checkForUpdates"
    /\ lastOp.branch = "reload"
    /\ lastMutationAt[RotClient] > 0
    /\ lastMutationAt[RotClient] < now
    /\ localStorage[RotClient][STORAGE_KEY].timestamp.format = "locale"
    /\ currentAssignments[RotClient] =
           localStorage[RotClient][STORAGE_KEY].assignments

\* ------------------------------------------------------------------------
\* The rate of reconnection attempts (SpecMonitor)
\* ------------------------------------------------------------------------
\* The attempts client c made less than RETRY_RESET_DELAY ago: each set a
\* reset timer that is not due yet.
RecentAttempts(c) == { due \in monitor[c].resets : due > now }

\* C36: at any moment at most SYNC_CONFIG.maxRetries reconnection attempts
\* were made within the last 30 seconds.
C36_AttemptsRateLimited ==
    \A c \in Clients : Cardinality(RecentAttempts(c)) <= MAX_RETRIES

\* ------------------------------------------------------------------------
\* The page load (SpecStartup)
\* ------------------------------------------------------------------------
\* The page load of client c is over: app.js has been evaluated and
\* DOMContentLoaded has been dispatched.
LoadOver(c) == page[c].evaluated /\ page[c].contentLoaded

\* C37: in whatever readyState app.js is evaluated, initializeApp runs
\* once per page load (never twice, and once when the load is over), one
\* interval of each kind is started, and a Ctrl+R key press rotates once.
C37_InitializedOnce ==
    \A c \in Clients :
        /\ page[c].initRuns <= 1
        /\ LoadOver(c) => page[c].initRuns = 1
        /\ page[c].reloadIntervals <= 1
        /\ page[c].monitorIntervals <= 1
        /\ page[c].jsonbinIntervals <= 1
        /\ page[c].keydownListeners <= 1
        /\ (lastOp.op = "rotatePeople" /\ lastOp.client = c)
              => lastOp.renders <= 1

====
